---- MODULE Spec2Model ----
(***************************************************************************)
(* A model of the noether crate: the boundary conditions (open space and   *)
(* periodic triclinic boxes with the minimum image convention), and the    *)
(* neighbour lists built on them (SimplePairlist, VerletPairlist with its  *)
(* CellList).                                                              *)
(*                                                                         *)
(* Quantities.  Lengths are integers in a fixed unit of 0.1 nm, areas the  *)
(* products of two lengths; the f64 arithmetic of the crate is exact on    *)
(* the small integers used here.  A length obtained as a square root is    *)
(* carried by its square (see smallest_box_length).                        *)
(* Option<T> is a sequence of at most one element: None is << >>, Some(x)  *)
(* is <<x>>.  Atom and cell indices are 0-based as in the source; a Vec v  *)
(* holds element i at v[i + 1].                                            *)
(***************************************************************************)
EXTENDS Integers, Sequences, FiniteSets, TLC

VARIABLES
    \* ---- the neighbour list under test and the frame last passed to it
    kind,          \* "simple" (SimplePairlist), "verlet" (VerletPairlist),
                   \* "pairlist" (pairlist::simple::SimplePairlist) or
                   \* "cells" (a CellList on its own)
    cutoff,        \* the list's cutoff field
    boundaries,    \* the boundary conditions passed with every call
    positions,     \* the frame passed to the last call
    pairs,         \* the list's pairs field: Vec<AtomPair>
    cell_list,     \* VerletPairlist's cell_list field
    status,        \* "ok", or "panic" once a call has panicked
    lastOp,        \* the last call made: "new", "regenerate" or "update"
    prevOp,        \* the call made before it ("none" before the constructor)
    \* ---- calls of the pure boundary functions on drawn arguments
    step,          \* position of the calling program
    arg_a,         \* first point
    arg_b,         \* second point
    arg_bc,        \* boundary conditions
    arg_cutoff,    \* Pairlist::cutoff() of the list handed to pairlist_checks
    arg_n,         \* lattice coefficients <<n1, n2, n3>> of a translation
    ret_ab,        \* Option: arg_bc.dist2(arg_a, arg_b)
    ret_ba,        \* Option: arg_bc.dist2(arg_b, arg_a)
    ret_open,      \* Option: NoBounds.dist2(arg_a, arg_b)
    ret_shifted,   \* Option: arg_bc.dist2(arg_a + n.V, arg_b)
    ret_checks,    \* "pending", "Ok" or the name of the Error variant
    \* ---- construction of a topology / potential / pair list, and its use
    ctor,          \* the constructor called, "none" before the call
    atoms,         \* argument atoms: the LJ parameter index of each atom
    atom_names,    \* argument atom_names
    lj_params,     \* argument lj_params: the rows (sigma, epsilon)
    lj_cutoff,     \* Option: the cutoff argument, or pairlist.cutoff()
    result,        \* "pending", "Ok" or the name of the Error variant
    topology,      \* Option: the Topology / LjPotential constructed
    pairlist,      \* Option: the pairlist::simple::SimplePairlist constructed
    got,           \* Option: the last get_lj_params / get_lj_pair calls
    energy,        \* Option: what the last potential evaluation returned
    \* ---- a call of io::read_xvg
    xvg_file,      \* the lines of the file at path
    column,        \* argument column
    xvg_ret,       \* Option: what read_xvg returned
    \* ---- an operation on two dimensioned quantities
    q_lhs,         \* the quantity type of the left operand
    q_rhs,         \* the quantity type of the right operand
    q_op,          \* "mul" or "div"
    q_dim,         \* Option: the dimension of the result
    \* ---- calls on a CellList (the cell_list above)
    cl_args,       \* the arguments of the last call
    cl_ret,        \* Option: the cells the last iterator call yielded
    \* ---- a State of lib.rs inside sample or simulate, or handed to calc_forces
    state,         \* the State (self)
    pc,            \* "idle", "loop" (at the head of the for loop) or "returned"
    prev_energy,   \* Option: the local prev_energy of sample
    accepts_since_pairlist_regen,   \* the local of sample
    step_n,        \* the loop variable n
    forces         \* Option: what the last calc_forces call returned

nlVars == <<kind, cutoff, boundaries, positions, pairs, cell_list, status, lastOp, prevOp>>
fnVars == <<step, arg_a, arg_b, arg_bc, arg_cutoff, arg_n,
            ret_ab, ret_ba, ret_open, ret_shifted, ret_checks>>
topVars == <<ctor, atoms, atom_names, lj_params, lj_cutoff, result, topology,
             pairlist, got, energy>>
ioVars == <<xvg_file, column, xvg_ret>>
dimVars == <<q_lhs, q_rhs, q_op, q_dim>>
clVars == <<cl_args, cl_ret>>
mdVars == <<state, pc, prev_energy, accepts_since_pairlist_regen, step_n, forces>>
extVars == <<topVars, ioVars, dimVars, clVars, mdVars>>
vars == <<nlVars, fnVars, extVars>>

None == << >>
Some(x) == <<x>>

(***************************************************************************)
(* Bounds of the model.                                                    *)
(***************************************************************************)
MaxCoord == 2      \* grid points have coordinates 0..MaxCoord
MaxBox == 3        \* rectangular boxes have side lengths 1..MaxBox
MaxCutoff == 2     \* cutoffs are drawn from 0..MaxCutoff (lists: 1..MaxCutoff)
MaxAtoms == 3      \* frames hold at most MaxAtoms atoms
MaxCells == 2      \* with_buffer is called with n_cells in 1..MaxCells
MaxRows == 2       \* LJ parameter tables have at most MaxRows rows
MaxLines == 2      \* xvg files have at most MaxLines lines
MaxColumn == 1     \* read_xvg is asked for a column in 0..MaxColumn

(***************************************************************************)
(* boundaries.rs                                                           *)
(***************************************************************************)
Sq(x) == x * x

\* BoundaryConditions values; NoBounds carries no box (the vectors are unused)
ZeroVec == <<0, 0, 0>>
NoBounds == [type |-> "NoBounds", v1 |-> ZeroVec, v2 |-> ZeroVec, v3 |-> ZeroVec]
Pbc(a, b, c) == [type |-> "Pbc", v1 |-> a, v2 |-> b, v3 |-> c]
cubic(d) == Pbc(<<d, 0, 0>>, <<0, d, 0>>, <<0, 0, d>>)
rectangular(l, w, h) == Pbc(<<l, 0, 0>>, <<0, w, 0>>, <<0, 0, h>>)

\* BoundaryConditions::dist2, the default body (used by NoBounds)
default_dist2(a, b) ==
    Sq(b[1] - a[1]) + Sq(b[2] - a[2]) + Sq(b[3] - a[3])

\* std::f64::INFINITY as the start of a running minimum, and f64::min
INFINITY == None
f64_min(min, x) == IF min = INFINITY THEN Some(x)
                   ELSE IF x < min[1] THEN Some(x) ELSE min

\* the body of the innermost loop of Pbc::dist2: the squared length of the
\* separation d displaced by i*v1 + j*v2 + k*v3
image_dist2(bc, d, i, j, k) ==
      Sq(d[1] + i * bc.v1[1] + j * bc.v2[1] + k * bc.v3[1])
    + Sq(d[2] + i * bc.v1[2] + j * bc.v2[2] + k * bc.v3[2])
    + Sq(d[3] + i * bc.v1[3] + j * bc.v2[3] + k * bc.v3[3])

\* the three nested loops of Pbc::dist2 over the array offs, flattened:
\* iteration n has i = offs[n / L^2], j = offs[(n / L) % L], k = offs[n % L]
RECURSIVE pbc_loop(_, _, _, _, _)
pbc_loop(bc, d, offs, n, min) ==
    LET L == Len(offs) IN
    IF n >= L * L * L THEN min
    ELSE pbc_loop(bc, d, offs, n + 1,
                  f64_min(min, image_dist2(bc, d,
                                           offs[(n \div (L * L)) + 1],
                                           offs[((n \div L) % L) + 1],
                                           offs[(n % L) + 1])))

Pbc_dist2_skewed(bc, a, b) ==
    pbc_loop(bc, <<b[1] - a[1], b[2] - a[2], b[3] - a[3]>>, <<0, 1>>, 0, INFINITY)[1]

Pbc_dist2_noidentity(bc, a, b) ==
    pbc_loop(bc, <<b[1] - a[1], b[2] - a[2], b[3] - a[3]>>, <<-1, 1>>, 0, INFINITY)[1]

Pbc_dist2_firstaxis(bc, a, b) ==
    LET d == <<b[1] - a[1], b[2] - a[2], b[3] - a[3]>> IN
    f64_min(f64_min(Some(image_dist2(bc, d, -1, 0, 0)), image_dist2(bc, d, 0, 0, 0)),
            image_dist2(bc, d, 1, 0, 0))[1]

\* Pbc::dist2
Pbc_dist2(bc, a, b) ==
    pbc_loop(bc, <<b[1] - a[1], b[2] - a[2], b[3] - a[3]>>, <<-1, 0, 1>>, 0, INFINITY)[1]

\* boundaries.dist2(a, b), dispatched on the implementor
dist2(bc, a, b) == IF bc.type = "Pbc" THEN Pbc_dist2(bc, a, b) ELSE default_dist2(a, b)

\* |v|^2; the Euclidean length (x^2 + y^2 + z^2).sqrt() is carried by it
norm2(v) == Sq(v[1]) + Sq(v[2]) + Sq(v[3])

\* the fold of Pbc::pairlist_checks over [a, b, c], on squared lengths:
\* sqrt is monotone, so min <= x on the lengths is min <= x on their squares
RECURSIVE fold_min(_, _, _)
fold_min(s, n, min) ==
    IF n > Len(s) THEN min
    ELSE fold_min(s, n + 1,
                  IF min = INFINITY THEN Some(s[n])
                  ELSE IF min[1] <= s[n] THEN min ELSE Some(s[n]))

smallest_box_length(bc) ==
    fold_min(<<norm2(bc.v1), norm2(bc.v2), norm2(bc.v3)>>, 1, INFINITY)[1]

\* c < l for a length c and a length l >= 0 carried by its square l2
lt_length(c, l2) == c < 0 \/ Sq(c) < l2
le_length(c, l2) == c <= 0 \/ Sq(c) <= l2

Pbc_pairlist_checks_inclusive(bc, c) ==
    IF c = None THEN "Ok"
    ELSE IF le_length(c[1], smallest_box_length(bc)) THEN "Ok"
    ELSE "MinimumImageConventionNotJustified"

\* Pbc::pairlist_checks, on the list's cutoff()
Pbc_pairlist_checks(bc, c) ==
    IF c = None THEN "Ok"
    ELSE IF lt_length(c[1], smallest_box_length(bc)) THEN "Ok"
    ELSE "MinimumImageConventionNotJustified"

\* BoundaryConditions::pairlist_checks, the default body (used by NoBounds)
default_pairlist_checks(bc, c) == "Ok"

pairlist_checks(bc, c) ==
    IF bc.type = "Pbc" THEN Pbc_pairlist_checks(bc, c) ELSE default_pairlist_checks(bc, c)

(***************************************************************************)
(* neighbourlist/simple.rs                                                 *)
(* An AtomPair ([i, j], r_squared) is the record [ij |-> <<i, j>>,         *)
(* r2 |-> r_squared].                                                      *)
(***************************************************************************)
AtomPair(i, j, r) == [ij |-> <<i, j>>, r2 |-> r]

\* where the atoms of a frame can be: three points with open-space squared
\* distances 1, 8 and 9, and the boundary conditions a list is used under
Sites == {<<0, 0, 0>>, <<1, 0, 0>>, <<0, 2, 2>>}
ListBoundaries == {NoBounds, cubic(3)}

\* boundaries.dist2(a, b) as the lists call it: dist2 on the sites, tabulated
\* once for the boundary conditions in use
SiteDist2 ==
    [bc \in ListBoundaries |-> [a \in Sites |-> [b \in Sites |-> dist2(bc, a, b)]]]
boundaries_dist2(bc, a, b) == SiteDist2[bc][a][b]

\* Vec::clear
clear(v) == << >>

\* the two nested loops of SimplePairlist::regenerate, pushing onto acc:
\* i enumerates positions, j runs over (i+1..) zipped with positions[i+1..]
RECURSIVE regenerate_loop(_, _, _, _, _, _)
regenerate_loop(acc, pos, bc, cutoff_squared, i, j) ==
    IF i >= Len(pos) THEN acc
    ELSE IF j >= Len(pos)
         THEN regenerate_loop(acc, pos, bc, cutoff_squared, i + 1, i + 2)
         ELSE LET r_squared == boundaries_dist2(bc, pos[i + 1], pos[j + 1]) IN
              regenerate_loop(IF r_squared < cutoff_squared
                              THEN Append(acc, AtomPair(i, j, r_squared))
                              ELSE acc,
                              pos, bc, cutoff_squared, i, j + 1)

SimplePairlist_regenerate_inclusive(prs, pos, bc, c) ==
    regenerate_loop(clear(prs), pos, bc, c * c + 1, 0, 1)

SimplePairlist_regenerate_noclear(prs, pos, bc, c) ==
    regenerate_loop(prs, pos, bc, c * c, 0, 1)

SimplePairlist_regenerate_relative(prs, pos, bc, c) ==
    LET built == regenerate_loop(clear(prs), pos, bc, c * c, 0, 1) IN
    [k \in 1..Len(built) |->
        [built[k] EXCEPT !.ij = <<built[k].ij[1], built[k].ij[2] - (built[k].ij[1] + 1)>>]]

\* SimplePairlist::regenerate: the new value of self.pairs
SimplePairlist_regenerate(prs, pos, bc, c) ==
    regenerate_loop(clear(prs), pos, bc, c * c, 0, 1)

\* the two nested loops of pairlist::simple::SimplePairlist::update, pushing
\* onto acc: i enumerates positions, j enumerates the slice positions[i+1..]
\* from 0, and b is the element j of that slice
RECURSIVE pairlist_update_loop(_, _, _, _, _, _)
pairlist_update_loop(acc, pos, bc, cutoff_squared, i, j) ==
    IF i >= Len(pos) THEN acc
    ELSE IF i + 1 + j >= Len(pos)
         THEN pairlist_update_loop(acc, pos, bc, cutoff_squared, i + 1, 0)
         ELSE LET r_squared == boundaries_dist2(bc, pos[i + 1], pos[(i + 1 + j) + 1]) IN
              pairlist_update_loop(IF r_squared < cutoff_squared
                                   THEN Append(acc, AtomPair(i, j, r_squared))
                                   ELSE acc,
                                   pos, bc, cutoff_squared, i, j + 1)

\* pairlist::simple::SimplePairlist::update: the new value of self.pairs
pairlist_SimplePairlist_update(prs, pos, bc, c) ==
    pairlist_update_loop(clear(prs), pos, bc, c * c, 0, 0)

\* the loop of update over self.pairs.iter_mut(), from entry k on; indexing
\* positions out of range panics and leaves the entries written so far
RECURSIVE update_loop(_, _, _, _)
update_loop(prs, pos, bc, k) ==
    IF k > Len(prs) THEN [pairs |-> prs, st |-> "ok"]
    ELSE IF prs[k].ij[1] >= Len(pos) \/ prs[k].ij[2] >= Len(pos)
         THEN [pairs |-> prs, st |-> "panic"]
         ELSE update_loop(
                 [prs EXCEPT ![k].r2 = boundaries_dist2(bc, pos[prs[k].ij[1] + 1], pos[prs[k].ij[2] + 1])],
                 pos, bc, k + 1)

RECURSIVE drop_beyond(_, _)
drop_beyond(prs, cutoff_squared) ==
    IF prs = << >> THEN << >>
    ELSE IF Head(prs).r2 < cutoff_squared
         THEN <<Head(prs)>> \o drop_beyond(Tail(prs), cutoff_squared)
         ELSE drop_beyond(Tail(prs), cutoff_squared)

Neighbourlist_update_filtering(prs, pos, bc) ==
    LET r == update_loop(prs, pos, bc, 1) IN
    [r EXCEPT !.pairs = drop_beyond(r.pairs, cutoff * cutoff)]

\* SimplePairlist::update and VerletPairlist::update (the same loop): the new
\* value of self.pairs and whether the call returned
Neighbourlist_update(prs, pos, bc) == update_loop(prs, pos, bc, 1)

(***************************************************************************)
(* neighbourlist/verlet.rs                                                 *)
(* A CellList is the record of its fields n_cells, cell_length, indices    *)
(* and head (its boundaries field is always NoBounds).  An operation that  *)
(* can panic returns its outcome st: "ok", "panic" (an index out of        *)
(* bounds), or "hang" (a walk that never ends).                            *)
(***************************************************************************)
Min(x, y) == IF x <= y THEN x ELSE y

worst(s, t) == IF s = "ok" THEN t ELSE s

\* f64::from(x / l) as usize: truncation, negative values saturate at 0
as_usize(x, l) == IF x < 0 THEN 0 ELSE x \div l

position_to_cell_unclamped(cl, p) ==
    LET x_idx == as_usize(p[1], cl.cell_length[1])
        y_idx == as_usize(p[2], cl.cell_length[2])
        z_idx == as_usize(p[3], cl.cell_length[3])
    IN  z_idx + cl.n_cells[3] * y_idx + cl.n_cells[2] * cl.n_cells[3] * x_idx

\* CellList::position_to_cell
position_to_cell(cl, p) ==
    LET x_idx == Min(as_usize(p[1], cl.cell_length[1]), cl.n_cells[1] - 1)
        y_idx == Min(as_usize(p[2], cl.cell_length[2]), cl.n_cells[2] - 1)
        z_idx == Min(as_usize(p[3], cl.cell_length[3]), cl.n_cells[3] - 1)
    IN  z_idx + cl.n_cells[3] * y_idx + cl.n_cells[2] * cl.n_cells[3] * x_idx

\* the loop of add_atom that walks indices from i to the tail of the list
RECURSIVE walk_to_tail(_, _, _)
walk_to_tail(indices, i, fuel) ==
    IF i >= Len(indices) THEN [st |-> "panic", i |-> i]
    ELSE IF indices[i + 1] = None THEN [st |-> "ok", i |-> i]
    ELSE IF fuel = 0 THEN [st |-> "hang", i |-> i]
    ELSE walk_to_tail(indices, indices[i + 1][1], fuel - 1)

\* CellList::add_atom
add_atom(cl, atom_index, cell_index) ==
    IF cell_index >= Len(cl.head) THEN [cl |-> cl, st |-> "panic"]
    ELSE IF cl.head[cell_index + 1] = None
         THEN [cl |-> [cl EXCEPT !.head[cell_index + 1] = Some(atom_index)], st |-> "ok"]
         ELSE LET w == walk_to_tail(cl.indices, cl.head[cell_index + 1][1], Len(cl.indices)) IN
              IF w.st # "ok" THEN [cl |-> cl, st |-> w.st]
              ELSE LET linked == [cl EXCEPT !.indices[w.i + 1] = Some(atom_index)] IN
                   IF atom_index >= Len(cl.indices)
                   THEN [cl |-> linked, st |-> "panic"]
                   ELSE [cl |-> [linked EXCEPT !.indices[atom_index + 1] = None],
                         st |-> "ok"]

\* CellList::regenerate: add_atom for every position in turn, from atom i on
RECURSIVE CellList_regenerate_from(_, _, _)
CellList_regenerate_from(cl, pos, i) ==
    IF i >= Len(pos) THEN [cl |-> cl, st |-> "ok"]
    ELSE LET r == add_atom(cl, i, position_to_cell(cl, pos[i + 1])) IN
         IF r.st # "ok" THEN r
         ELSE CellList_regenerate_from(r.cl, pos, i + 1)

CellList_regenerate(cl, pos) == CellList_regenerate_from(cl, pos, 0)

\* CellList::new
CellList_new(n_cells, cell_length, pos) ==
    CellList_regenerate(
        [n_cells |-> n_cells,
         cell_length |-> cell_length,
         indices |-> [k \in 1..Len(pos) |-> None],
         head |-> [k \in 1..(n_cells[1] * n_cells[2] * n_cells[3]) |-> None]],
        pos)

\* CellIter::next in stage Indices(i), repeated to the end of the list: the
\* atoms yielded after atom i
RECURSIVE cell_iter_rest(_, _, _)
cell_iter_rest(cl, i, fuel) ==
    IF i >= Len(cl.indices) THEN [atoms |-> << >>, st |-> "panic"]
    ELSE IF cl.indices[i + 1] = None THEN [atoms |-> << >>, st |-> "ok"]
    ELSE IF fuel = 0 THEN [atoms |-> << >>, st |-> "hang"]
    ELSE LET rest == cell_iter_rest(cl, cl.indices[i + 1][1], fuel - 1) IN
         [atoms |-> <<cl.indices[i + 1][1]>> \o rest.atoms, st |-> rest.st]

\* CellList::iter_cell_atoms, run to exhaustion: the atoms yielded, and how
\* the iteration ended
iter_cell_atoms(cl, cell) ==
    IF cell >= Len(cl.head) THEN [atoms |-> << >>, st |-> "panic"]
    ELSE IF cl.head[cell + 1] = None THEN [atoms |-> << >>, st |-> "ok"]
    ELSE LET rest == cell_iter_rest(cl, cl.head[cell + 1][1], Len(cl.indices)) IN
         [atoms |-> <<cl.head[cell + 1][1]>> \o rest.atoms, st |-> rest.st]

RECURSIVE concat_all(_)
concat_all(ss) == IF ss = << >> THEN << >> ELSE Head(ss) \o concat_all(Tail(ss))

RECURSIVE worst_of(_)
worst_of(sts) == IF sts = << >> THEN "ok" ELSE worst(Head(sts), worst_of(Tail(sts)))

\* CellList::iter_cells: x over 0..i, y over 0..j and z over 0..j
iter_cells(cl) ==
    LET i == cl.n_cells[1]
        j == cl.n_cells[2]
        k == cl.n_cells[3]
    IN  [n \in 1..(i * j * j) |->
            LET x_idx == (n - 1) \div (j * j)
                y_idx == ((n - 1) \div j) % j
                z_idx == (n - 1) % j
            IN  z_idx + k * y_idx + j * k * x_idx]

\* one arm of the three matches of iter_neighbouring_cells
clamp_idx(idx, d, n) == IF idx + d >= n THEN n - 1
                        ELSE IF idx + d < 0 THEN 0 ELSE idx + d

\* the first lines of iter_neighbouring_cells: the axis indices
\* <<x_idx, y_idx, z_idx>> it derives from a flattened cell index
cell_idx(n_cells, cell) ==
    LET j == n_cells[2]
        k == n_cells[3]
        x_idx == cell \div (j * k)
        y_idx == (cell - x_idx) \div k
        z_idx == cell - x_idx - y_idx
    IN  <<x_idx, y_idx, z_idx>>

\* CellList::iter_neighbouring_cells: dx, dy and dz each run over the
\* half-open range -neighbours..neighbours
iter_neighbouring_cells(cl, cell, neighbours) ==
    LET i == cl.n_cells[1]
        j == cl.n_cells[2]
        k == cl.n_cells[3]
        x_idx == cell_idx(cl.n_cells, cell)[1]
        y_idx == cell_idx(cl.n_cells, cell)[2]
        z_idx == cell_idx(cl.n_cells, cell)[3]
        w == 2 * neighbours
    IN  [n \in 1..(w * w * w) |->
            LET dx == ((n - 1) \div (w * w)) - neighbours
                dy == (((n - 1) \div w) % w) - neighbours
                dz == ((n - 1) % w) - neighbours
            IN  clamp_idx(z_idx, dz, k)
                + k * clamp_idx(y_idx, dy, j)
                + j * k * clamp_idx(x_idx, dx, i)]

\* CellList::iter_pairs, collected: the (atom_a, atom_b) yielded and how the
\* iteration ended
iter_pairs(cl) ==
    LET cells == iter_cells(cl)
        of_cell(c) ==
            LET A == iter_cell_atoms(cl, c)
                N == iter_neighbouring_cells(cl, c, 1)
                B == [m \in 1..Len(N) |-> iter_cell_atoms(cl, N[m])]
            IN  [pairs |->
                    concat_all([a \in 1..Len(A.atoms) |->
                        concat_all([m \in 1..Len(N) |->
                            [b \in 1..Len(B[m].atoms) |->
                                <<A.atoms[a], B[m].atoms[b]>>]])]),
                 st |-> IF A.atoms = << >> THEN A.st
                        ELSE worst(worst_of([m \in 1..Len(N) |-> B[m].st]), A.st)]
        per_cell == [n \in 1..Len(cells) |-> of_cell(cells[n])]
    IN  [pairs |-> concat_all([n \in 1..Len(cells) |-> per_cell[n].pairs]),
         st |-> worst_of([n \in 1..Len(cells) |-> per_cell[n].st])]

\* the loop of remove_atom that walks from prev_i to the atom before
\* atom_index; running off the end of the list is the panic! after the loop
RECURSIVE find_prev(_, _, _, _)
find_prev(indices, prev_i, atom_index, fuel) ==
    IF prev_i >= Len(indices) THEN [st |-> "panic", prev_i |-> prev_i]
    ELSE IF indices[prev_i + 1] = None THEN [st |-> "panic", prev_i |-> prev_i]
    ELSE IF indices[prev_i + 1][1] = atom_index THEN [st |-> "ok", prev_i |-> prev_i]
    ELSE IF fuel = 0 THEN [st |-> "hang", prev_i |-> prev_i]
    ELSE find_prev(indices, indices[prev_i + 1][1], atom_index, fuel - 1)

\* CellList::remove_atom
remove_atom(cl, atom_index, cell_index) ==
    IF atom_index >= Len(cl.indices) \/ cell_index >= Len(cl.head)
    THEN [cl |-> cl, st |-> "panic"]
    ELSE LET next_i == cl.indices[atom_index + 1] IN
         IF cl.head[cell_index + 1] = None THEN [cl |-> cl, st |-> "panic"]
         ELSE IF cl.head[cell_index + 1][1] = atom_index
              THEN [cl |-> [cl EXCEPT !.head[cell_index + 1] = next_i], st |-> "ok"]
              ELSE LET f == find_prev(cl.indices, cl.head[cell_index + 1][1],
                                      atom_index, Len(cl.indices)) IN
                   IF f.st # "ok" THEN [cl |-> cl, st |-> f.st]
                   ELSE [cl |-> [cl EXCEPT !.indices[f.prev_i + 1] = next_i,
                                           !.indices[atom_index + 1] = None],
                         st |-> "ok"]

\* CellList::move_atom
move_atom(cl, atom_index, old_cell, new_cell) ==
    IF old_cell = new_cell THEN [cl |-> cl, st |-> "ok"]
    ELSE LET r == remove_atom(cl, atom_index, old_cell) IN
         IF r.st # "ok" THEN r
         ELSE add_atom(r.cl, atom_index, new_cell)

\* VerletPairlist::with_buffer: the cell_list field
with_buffer(c, buffer, n_cells) ==
    CellList_new(<<n_cells, n_cells, n_cells>>,
                 <<c + buffer, c + buffer, c + buffer>>, << >>).cl

\* VerletPairlist::regenerate: the new pairs and cell_list fields and how the
\* call ended; self.pairs is assigned only when the collect completes
VerletPairlist_regenerate(prs, cl, pos, bc) ==
    LET r == CellList_regenerate(cl, pos) IN
    IF r.st # "ok" THEN [pairs |-> prs, cell_list |-> r.cl, st |-> r.st]
    ELSE LET ip == iter_pairs(r.cl) IN
         IF ip.st # "ok" THEN [pairs |-> prs, cell_list |-> r.cl, st |-> ip.st]
         ELSE IF \E n \in 1..Len(ip.pairs) :
                    ip.pairs[n][1] >= Len(pos) \/ ip.pairs[n][2] >= Len(pos)
              THEN [pairs |-> prs, cell_list |-> r.cl, st |-> "panic"]
              ELSE [pairs |-> [n \in 1..Len(ip.pairs) |->
                                  AtomPair(ip.pairs[n][1], ip.pairs[n][2],
                                           boundaries_dist2(bc, pos[ip.pairs[n][1] + 1],
                                                 pos[ip.pairs[n][2] + 1]))],
                    cell_list |-> r.cl,
                    st |-> "ok"]

(***************************************************************************)
(* f64 values that are not lengths or areas (ratios, energies) are exact   *)
(* rationals <<n, d>> in lowest terms with d > 0.  A division by zero      *)
(* gives an infinity or a NaN; every expression of the crate that divides  *)
(* goes on to subtract two such values and so ends in NaN, which is the    *)
(* value NaN here, and NaN propagates through every operation.             *)
(***************************************************************************)
NaN == << >>

abs(x) == IF x < 0 THEN -x ELSE x

RECURSIVE gcd(_, _)
gcd(a, b) == IF b = 0 THEN a ELSE gcd(b, a % b)

\* n / d
f64_div(n, d) ==
    IF d = 0 THEN NaN
    ELSE LET g == gcd(abs(n), abs(d))
             sgn == IF d < 0 THEN -1 ELSE 1
         IN  <<(sgn * n) \div g, (sgn * d) \div g>>

f64_of(n) == <<n, 1>>

f64_mul(x, y) ==
    IF x = NaN \/ y = NaN THEN NaN
    ELSE LET g1 == gcd(abs(x[1]), y[2])
             g2 == gcd(abs(y[1]), x[2])
         IN  f64_div((x[1] \div g1) * (y[1] \div g2), (x[2] \div g2) * (y[2] \div g1))

f64_add(x, y) ==
    IF x = NaN \/ y = NaN THEN NaN
    ELSE LET l == (x[2] \div gcd(x[2], y[2])) * y[2]
         IN  f64_div(x[1] * (l \div x[2]) + y[1] * (l \div y[2]), l)

f64_sub(x, y) == IF y = NaN THEN NaN ELSE f64_add(x, <<-y[1], y[2]>>)

\* Quantity::powi for a positive exponent
RECURSIVE powi(_, _)
powi(x, k) == IF k = 1 THEN x ELSE f64_mul(x, powi(x, k - 1))

\* f64::sqrt, on the perfect squares (where it is exact)
sqrt(x) == CHOOSE r \in 0..x : r * r = x

\* <[T]>::get
get(v, index) == IF index < Len(v) THEN Some(v[index + 1]) ELSE None

(***************************************************************************)
(* topology.rs, topology/lj.rs, pairlist/simple.rs                         *)
(* An LjParams row is [sigma, epsilon]; an LjParamsPair is [sigma_squared, *)
(* epsilon, shift] with shift a rational.  A constructor returns           *)
(* [res, val]: res is "Ok" or the Error variant, val the value built.      *)
(***************************************************************************)
LjParams(s, e) == [sigma |-> s, epsilon |-> e]

\* LjParamsPair::lj_potential
lj_potential(p, r_squared) ==
    LET six == powi(f64_div(p.sigma_squared, r_squared), 3)
        twelve == powi(six, 2)
    IN  f64_sub(f64_mul(f64_of(4 * p.epsilon), f64_sub(twelve, six)), p.shift)

LjParamsPair_new_arithmetic(a, b, c) ==
    LET sigma_squared == ((a.sigma + b.sigma) \div 2) * ((a.sigma + b.sigma) \div 2)
        epsilon == (a.epsilon + b.epsilon) \div 2
        shift == lj_potential([sigma_squared |-> sigma_squared,
                               epsilon |-> epsilon,
                               shift |-> f64_of(0)], c * c)
    IN  [sigma_squared |-> sigma_squared, epsilon |-> epsilon, shift |-> shift]

LjParamsPair_new_unsquared(a, b, c) ==
    LET sigma_squared == a.sigma * b.sigma
        epsilon == sqrt(a.epsilon * b.epsilon)
        shift == lj_potential([sigma_squared |-> sigma_squared,
                               epsilon |-> epsilon,
                               shift |-> f64_of(0)], c)
    IN  [sigma_squared |-> sigma_squared, epsilon |-> epsilon, shift |-> shift]

\* LjParamsPair::new
LjParamsPair_new(a, b, c) ==
    LET sigma_squared == a.sigma * b.sigma
        epsilon == sqrt(a.epsilon * b.epsilon)
        shift == lj_potential([sigma_squared |-> sigma_squared,
                               epsilon |-> epsilon,
                               shift |-> f64_of(0)], c * c)
    IN  [sigma_squared |-> sigma_squared, epsilon |-> epsilon, shift |-> shift]

\* the two loops that pre-compute all LJ pairs
lj_params_pairs_of(params, c) ==
    [i \in 1..Len(params) |->
        [j \in 1..Len(params) |-> LjParamsPair_new(params[i], params[j], c)]]

Topology_new_unchecked(ats, names, params, c) ==
    IF Len(ats) # Len(names) THEN [res |-> "IllegalTopology", val |-> None]
    ELSE [res |-> "Ok",
          val |-> Some([atoms |-> ats,
                        atom_names |-> names,
                        lj_params |-> params,
                        lj_params_pairs |-> lj_params_pairs_of(params, c),
                        lj_cutoff |-> c])]

\* Topology::new
Topology_new(ats, names, params, c) ==
    IF Len(ats) # Len(names) THEN [res |-> "IllegalTopology", val |-> None]
    ELSE IF \E k \in 1..Len(ats) : get(params, ats[k]) = None
         THEN [res |-> "IllegalTopology", val |-> None]
         ELSE [res |-> "Ok",
               val |-> Some([atoms |-> ats,
                             atom_names |-> names,
                             lj_params |-> params,
                             lj_params_pairs |-> lj_params_pairs_of(params, c),
                             lj_cutoff |-> c])]

LjPotential_with_pairlist_illegal(ats, params, pl_cutoff) ==
    IF (\E k \in 1..Len(ats) : get(params, ats[k]) = None) \/ pl_cutoff = None
    THEN [res |-> "IllegalTopology", val |-> None]
    ELSE [res |-> "Ok",
          val |-> Some([atoms |-> ats,
                        lj_params |-> params,
                        lj_params_pairs |-> lj_params_pairs_of(params, pl_cutoff[1]),
                        lj_cutoff |-> pl_cutoff[1]])]

\* LjPotential::with_pairlist, pairlist.cutoff() being pl_cutoff
LjPotential_with_pairlist(ats, params, pl_cutoff) ==
    IF \E k \in 1..Len(ats) : get(params, ats[k]) = None
    THEN [res |-> "IllegalTopology", val |-> None]
    ELSE IF pl_cutoff = None
         THEN [res |-> "CutoffRequired", val |-> None]
         ELSE [res |-> "Ok",
               val |-> Some([atoms |-> ats,
                             lj_params |-> params,
                             lj_params_pairs |-> lj_params_pairs_of(params, pl_cutoff[1]),
                             lj_cutoff |-> pl_cutoff[1]])]

\* pairlist::simple::SimplePairlist::new
pairlist_SimplePairlist_new(c) ==
    IF c # None
    THEN [res |-> "Ok", val |-> Some([pairs |-> << >>, cutoff |-> c[1]])]
    ELSE [res |-> "CutoffRequired", val |-> None]

\* Topology::get_lj_params
get_lj_params(top, index) ==
    IF get(top.atoms, index) = None THEN None
    ELSE get(top.lj_params, get(top.atoms, index)[1])

get_lj_pair_diagonal(top, i, j) ==
    IF get(top.atoms, i) = None THEN None
    ELSE IF get(top.atoms, j) = None THEN None
    ELSE IF get(top.lj_params_pairs, get(top.atoms, i)[1]) = None THEN None
    ELSE get(get(top.lj_params_pairs, get(top.atoms, i)[1])[1], get(top.atoms, i)[1])

\* Topology::get_lj_pair and LjPotential::get_lj_pair
get_lj_pair(top, i, j) ==
    IF get(top.atoms, i) = None THEN None
    ELSE IF get(top.atoms, j) = None THEN None
    ELSE IF get(top.lj_params_pairs, get(top.atoms, i)[1]) = None THEN None
    ELSE get(get(top.lj_params_pairs, get(top.atoms, i)[1])[1], get(top.atoms, j)[1])

\* the fold of Topology::lj_potential / LjPotential::compute_potential over
\* the pair list from entry k on, en being the energy so far; the unwrap of a
\* pair the topology does not have panics
RECURSIVE lj_fold(_, _, _, _)
lj_fold(top, prs, k, en) ==
    IF k > Len(prs) THEN [st |-> "ok", energy |-> en]
    ELSE LET p == get_lj_pair(top, prs[k].ij[1], prs[k].ij[2]) IN
         IF p = None THEN [st |-> "panic", energy |-> en]
         ELSE lj_fold(top, prs, k + 1, f64_add(en, lj_potential(p[1], prs[k].r2)))

\* Topology::lj_potential and LjPotential::compute_potential
Topology_lj_potential(top, prs) == lj_fold(top, prs, 1, f64_of(0))

\* NeighbourlistParams::NonbondedCutoff
NonbondedCutoff(c) == [variant |-> "NonbondedCutoff", cutoff |-> c]

neighbourlist_params_fixed(c) == NonbondedCutoff(1)

\* SimplePairlist::neighbourlist_params, c being the list's cutoff field
neighbourlist_params(c) == NonbondedCutoff(c)

\* the potential's neighbourlist_params(): the list parameters it requires
Potential_neighbourlist_params(top) == NonbondedCutoff(top.lj_cutoff)

\* the potential's evaluate(neighbourlist): the sum of the pair terms over a
\* list whose parameters are nl_params, refused when they are not the
\* potential's own
Potential_evaluate(top, nl_params, prs) ==
    IF nl_params # Potential_neighbourlist_params(top)
    THEN [st |-> "ok", res |-> "NeighbourlistNotCompatible", energy |-> NaN]
    ELSE LET r == Topology_lj_potential(top, prs) IN
         [st |-> r.st, res |-> "Ok", energy |-> r.energy]

(***************************************************************************)
(* io.rs                                                                   *)
(* A line is a sequence of characters, a character a string: " " is the    *)
(* white space, "mu" stands for the micro sign U+00B5, whose UTF-8         *)
(* encoding takes two bytes; every other character takes one.  The file    *)
(* opens and is valid UTF-8 unless stated.                                 *)
(***************************************************************************)
len_utf8(ch) == IF ch = "mu" THEN 2 ELSE 1

is_whitespace(ch) == ch = " "

\* str::trim_start, str::trim_end and str::trim
RECURSIVE trim_start(_)
trim_start(line) ==
    IF line = << >> THEN << >>
    ELSE IF is_whitespace(Head(line)) THEN trim_start(Tail(line)) ELSE line

RECURSIVE trim_end(_)
trim_end(line) ==
    IF line = << >> THEN << >>
    ELSE IF is_whitespace(line[Len(line)]) THEN trim_end(SubSeq(line, 1, Len(line) - 1))
         ELSE line

trim(line) == trim_end(trim_start(line))

\* str::get(0..1): the first byte as a string slice, None when the string is
\* empty or byte 1 is not a character boundary
str_get_first_byte(line) ==
    IF line = << >> THEN None
    ELSE IF len_utf8(Head(line)) # 1 THEN None
    ELSE Some(Head(line))

\* str::split_whitespace, collected: cur is the token being read
RECURSIVE split_from(_, _, _)
split_from(line, n, cur) ==
    IF n > Len(line) THEN (IF cur = << >> THEN << >> ELSE <<cur>>)
    ELSE IF is_whitespace(line[n])
         THEN (IF cur = << >> THEN << >> ELSE <<cur>>) \o split_from(line, n + 1, << >>)
         ELSE split_from(line, n + 1, Append(cur, line[n]))

split_whitespace(line) == split_from(line, 1, << >>)

\* the loop of read_xvg over reader.lines(), from line n on
RECURSIVE read_xvg_loop(_, _, _, _)
read_xvg_loop(lines, col, n, out) ==
    IF n > Len(lines) THEN [res |-> "Ok", out |-> out]
    ELSE LET first == str_get_first_byte(trim(lines[n])) IN
         IF first = None \/ first = Some("@") \/ first = Some("#")
         THEN read_xvg_loop(lines, col, n + 1, out)
         ELSE LET data == get(split_whitespace(lines[n]), col) IN
              IF data = None
              THEN [res |-> "A row has too few values", out |-> << >>]
              ELSE read_xvg_loop(lines, col, n + 1, Append(out, data[1]))

\* read_xvg, once File::open has succeeded
read_xvg(lines, col) == read_xvg_loop(lines, col, 1, << >>)

(***************************************************************************)
(* units/mod.rs and units/*.rs                                             *)
(* A dimension is the tuple of the exponents of (length, mass, time,       *)
(* charge, temperature).                                                   *)
(***************************************************************************)
\* the dimension: Q<...> declared by the quantity! block of each quantity
Length_dimension == <<1, 0, 0, 0, 0>>
Mass_dimension == <<0, 1, 0, 0, 0>>
Time_dimension == <<0, 0, 1, 0, 0>>
Charge_dimension == <<0, 0, 0, 1, 0>>
Temperature_dimension == <<0, 0, 0, 0, 1>>
Energy_dimension == <<2, 1, -2, 0, 0>>
Force_dimension_copied == <<2, 1, -2, 0, 0>>
Force_dimension == <<1, 1, -2, 0, 0>>
Entropy_dimension == <<2, 1, -2, 0, -1>>
Velocity_dimension == <<1, 0, -1, 0, 0>>
Area_dimension == <<2, 0, 0, 0, 0>>

\* the quantities of the system! block, each with its dimension
dimension ==
    [length      |-> Length_dimension,
     mass        |-> Mass_dimension,
     time        |-> Time_dimension,
     charge      |-> Charge_dimension,
     temperature |-> Temperature_dimension,
     energy      |-> Energy_dimension,
     force       |-> Force_dimension,
     entropy     |-> Entropy_dimension,
     velocity    |-> Velocity_dimension,
     area        |-> Area_dimension]

Quantities == DOMAIN dimension

\* the dimension of a product and of a quotient of two quantities
dim_mul(a, b) == [k \in 1..5 |-> a[k] + b[k]]
dim_div(a, b) == [k \in 1..5 |-> a[k] - b[k]]

(***************************************************************************)
(* lib.rs: the modules state and topology (State, Top, Atom).              *)
(* Positions, velocities and box vectors are vectors of whole numbers of   *)
(* nm, nm/ps; f32 holds every integer of magnitude up to 2^24 exactly and  *)
(* rounds larger ones to 24 significant bits (f32_round).  Energies and    *)
(* forces are the exact rationals above, NaN included.  A State is the     *)
(* record of its fields topology, positions, velocities, pairlist and      *)
(* boxvecs; a Top the record of atoms and lj_cutoff; an Atom the record of *)
(* mass, charge, epsilon and sigma.  Functions that index a Vec return     *)
(* their outcome st ("ok" or "panic") next to their value.                 *)
(***************************************************************************)
Atom(m, e, s) == [mass |-> m, charge |-> 0, epsilon |-> e, sigma |-> s]

\* the 27 offsets of State::dist2 in the order of its three loops over
\* [-1.0, 0.0, 1.0]: offset number k (from 0) is a*vec_a + b*vec_b + c*vec_c
dist2_offset(boxvecs, k) ==
    LET a == (k \div 9) - 1
        b == ((k \div 3) % 3) - 1
        c == (k % 3) - 1
    IN  [m \in 1..3 |-> a * boxvecs[1][m] + b * boxvecs[2][m] + c * boxvecs[3][m]]

\* the scan of Iterator::min_by in State::dist2 from offset k on: best is the
\* least (diff, diff2) so far, replaced only by a strictly lesser one, so
\* the first of several least ones is kept
RECURSIVE dist2_min_by(_, _, _, _)
dist2_min_by(boxvecs, delta, k, best) ==
    IF k > 26 THEN best
    ELSE LET diff == [m \in 1..3 |-> delta[m] + dist2_offset(boxvecs, k)[m]]
             cand == [diff |-> diff, r2 |-> norm2(diff)]
         IN  dist2_min_by(boxvecs, delta, k + 1,
                          IF cand.r2 < best.r2 THEN cand ELSE best)

\* State::dist2: the (diff, diff2) with the least diff2 over the 27 offsets
State_dist2(boxvecs, first, second) ==
    LET delta == [m \in 1..3 |-> first[m] - second[m]]
        diff0 == [m \in 1..3 |-> delta[m] + dist2_offset(boxvecs, 0)[m]]
    IN  dist2_min_by(boxvecs, delta, 1, [diff |-> diff0, r2 |-> norm2(diff0)])

\* Itertools::tuple_combinations over (0..len).enumerate(): the index pairs
\* (i, j) with i < j in lexicographic order
tuple_combinations(len) ==
    SelectSeq([k \in 1..(len * len) |-> <<(k - 1) \div len, (k - 1) % len>>],
              LAMBDA ij : ij[1] < ij[2])

\* State::gen_pairs: the new value of self.pairlist; cutoff is the rational
\* <<n, d>>, and diff2 <= cutoff * cutoff is diff2 * d * d <= n * n
gen_pairs(positions_, boxvecs, cutoff_) ==
    SelectSeq(tuple_combinations(Len(positions_)),
              LAMBDA ij :
                  \/ cutoff_[1] = 0
                  \/ State_dist2(boxvecs, positions_[ij[1] + 1], positions_[ij[2] + 1]).r2
                        * cutoff_[2] * cutoff_[2] <= cutoff_[1] * cutoff_[1])

\* the closure of Top::calc_energy and Top::calc_forces on a pair at squared
\* distance r2: (sig12 / r12) - (sig6 / r6) with sig the mean of the sigmas
lj_bracket(atoms_, i, j, r2) ==
    LET sig == f64_div(atoms_[i + 1].sigma + atoms_[j + 1].sigma, 2)
        sig6 == powi(sig, 6)
        r6 == r2 * r2 * r2
        sig12 == f64_mul(sig6, sig6)
        r12 == r6 * r6
    IN  f64_sub(f64_mul(sig12, f64_div(1, r12)), f64_mul(sig6, f64_div(1, r6)))

\* the mean of the epsilons
lj_eps(atoms_, i, j) == f64_div(atoms_[i + 1].epsilon + atoms_[j + 1].epsilon, 2)

\* Top::calc_energy: the sum over the pairs with r2 <= lj_cutoff^2, from pair
\* k on, added to acc
RECURSIVE calc_energy_from(_, _, _, _, _, _)
calc_energy_from(top, positions_, pairlist_, boxvecs, k, acc) ==
    IF k > Len(pairlist_) THEN [st |-> "ok", energy |-> acc]
    ELSE LET i == pairlist_[k][1]
             j == pairlist_[k][2]
         IN  IF i >= Len(positions_) \/ j >= Len(positions_)
             THEN [st |-> "panic", energy |-> acc]
             ELSE LET r2 == State_dist2(boxvecs, positions_[i + 1], positions_[j + 1]).r2 IN
                  IF r2 <= top.lj_cutoff * top.lj_cutoff
                  THEN IF i >= Len(top.atoms) \/ j >= Len(top.atoms)
                       THEN [st |-> "panic", energy |-> acc]
                       ELSE calc_energy_from(top, positions_, pairlist_, boxvecs, k + 1,
                               f64_add(acc,
                                   f64_mul(f64_mul(f64_of(4), lj_eps(top.atoms, i, j)),
                                           lj_bracket(top.atoms, i, j, r2))))
                  ELSE calc_energy_from(top, positions_, pairlist_, boxvecs, k + 1, acc)

Top_calc_energy(top, positions_, pairlist_, boxvecs) ==
    calc_energy_from(top, positions_, pairlist_, boxvecs, 1, f64_of(0))

\* State::calc_energy
State_calc_energy(st) ==
    Top_calc_energy(st.topology, st.positions, st.pairlist, st.boxvecs)

\* the force f of Top::calc_forces on a pair with distance vector r:
\* r.normalize_into() * 48 * (eps / r2.sqrt()) * bracket, the two divisions by
\* the norm together being one division by r2
pair_force(atoms_, i, j, r, r2) ==
    LET scale == f64_mul(f64_mul(f64_mul(f64_of(48), lj_eps(atoms_, i, j)),
                                 lj_bracket(atoms_, i, j, r2)),
                         f64_div(1, r2))
    IN  [m \in 1..3 |-> f64_mul(f64_of(r[m]), scale)]

ForceVec_zero == <<f64_of(0), f64_of(0), f64_of(0)>>
vec_add(u, v) == [m \in 1..3 |-> f64_add(u[m], v[m])]
vec_sub(u, v) == [m \in 1..3 |-> f64_sub(u[m], v[m])]

RECURSIVE calc_forces_oneway(_, _, _, _, _, _)
calc_forces_oneway(top, positions_, pairlist_, boxvecs, k, acc) ==
    IF k > Len(pairlist_) THEN [st |-> "ok", forces |-> acc]
    ELSE LET i == pairlist_[k][1]
             j == pairlist_[k][2]
         IN  IF i >= Len(positions_) \/ j >= Len(positions_)
             THEN [st |-> "panic", forces |-> acc]
             ELSE LET d == State_dist2(boxvecs, positions_[i + 1], positions_[j + 1]) IN
                  IF d.r2 <= top.lj_cutoff * top.lj_cutoff
                  THEN IF i >= Len(top.atoms) \/ j >= Len(top.atoms)
                       THEN [st |-> "panic", forces |-> acc]
                       ELSE LET f == pair_force(top.atoms, i, j, d.diff, d.r2) IN
                            calc_forces_oneway(top, positions_, pairlist_, boxvecs, k + 1,
                                [acc EXCEPT ![i + 1] = vec_add(acc[i + 1], f)])
                  ELSE calc_forces_oneway(top, positions_, pairlist_, boxvecs, k + 1, acc)

\* Top::calc_forces: the loop over the pairlist from pair k on, acc being the
\* forces accumulated so far
RECURSIVE calc_forces_from(_, _, _, _, _, _)
calc_forces_from(top, positions_, pairlist_, boxvecs, k, acc) ==
    IF k > Len(pairlist_) THEN [st |-> "ok", forces |-> acc]
    ELSE LET i == pairlist_[k][1]
             j == pairlist_[k][2]
         IN  IF i >= Len(positions_) \/ j >= Len(positions_)
             THEN [st |-> "panic", forces |-> acc]
             ELSE LET d == State_dist2(boxvecs, positions_[i + 1], positions_[j + 1]) IN
                  IF d.r2 <= top.lj_cutoff * top.lj_cutoff
                  THEN IF i >= Len(top.atoms) \/ j >= Len(top.atoms)
                       THEN [st |-> "panic", forces |-> acc]
                       ELSE LET f == pair_force(top.atoms, i, j, d.diff, d.r2)
                                plus == [acc EXCEPT ![i + 1] = vec_add(acc[i + 1], f)]
                            IN  calc_forces_from(top, positions_, pairlist_, boxvecs, k + 1,
                                    [plus EXCEPT ![j + 1] = vec_sub(plus[j + 1], f)])
                  ELSE calc_forces_from(top, positions_, pairlist_, boxvecs, k + 1, acc)

Top_calc_forces_oneway(top, positions_, pairlist_, boxvecs) ==
    calc_forces_oneway(top, positions_, pairlist_, boxvecs, 1,
                       [a \in 1..Len(top.atoms) |-> ForceVec_zero])

Top_calc_forces(top, positions_, pairlist_, boxvecs) ==
    calc_forces_from(top, positions_, pairlist_, boxvecs, 1,
                     [a \in 1..Len(top.atoms) |-> ForceVec_zero])

(***************************************************************************)
(* Calls of the boundary functions.  A caller draws its arguments, then    *)
(* calls dist2 / pairlist_checks on them; each call is one action and      *)
(* stores what the function returned.                                      *)
(***************************************************************************)
Grid == {<<x, y, z>> : x \in 0..MaxCoord, y \in 0..MaxCoord, z \in 0..MaxCoord}

\* the far point (1.9 nm, 0, 0) of the crate's minimum-image example
FarPoint == <<19, 0, 0>>

\* a box whose vectors are not orthogonal
Triclinic == Pbc(<<2, 0, 0>>, <<1, 2, 0>>, <<1, 1, 2>>)
Oblique == Pbc(<<1, 1, 1>>, <<0, 3, 0>>, <<0, 0, 3>>)

DistBoundaries == {NoBounds, cubic(2), rectangular(3, 2, 3), Triclinic, cubic(20)}

CheckBoundaries ==
    {NoBounds, Triclinic, Oblique}
    \cup {rectangular(l, w, h) : l \in 1..MaxBox, w \in 1..MaxBox, h \in 1..MaxBox}

CheckCutoffs == {None} \cup {Some(c) : c \in 0..MaxCutoff}

Shifts == {<<n1, n2, n3>> : n1 \in {-1, 0, 1}, n2 \in {-1, 0, 1}, n3 \in {-1, 0, 1}}

\* a + n1*v1 + n2*v2 + n3*v3
translate(bc, a, n) ==
    [m \in 1..3 |-> a[m] + n[1] * bc.v1[m] + n[2] * bc.v2[m] + n[3] * bc.v3[m]]

\* values of the neighbour-list variables while only the functions are called
NlIdle ==
    /\ kind = "simple"
    /\ cutoff = 1
    /\ boundaries = NoBounds
    /\ positions = << >>
    /\ pairs = << >>
    /\ cell_list = [n_cells |-> <<1, 1, 1>>, cell_length |-> <<1, 1, 1>>,
                    indices |-> << >>, head |-> <<None>>]
    /\ status = "ok"
    /\ lastOp = "new"
    /\ prevOp = "none"

\* values of the construction variables while nothing is constructed
TopIdle ==
    /\ ctor = "none"
    /\ atoms = << >>
    /\ atom_names = << >>
    /\ lj_params = << >>
    /\ lj_cutoff = None
    /\ result = "pending"
    /\ topology = None
    /\ pairlist = None
    /\ got = None
    /\ energy = None

\* values of the read_xvg variables while no file is read
IoIdle ==
    /\ xvg_file = << >>
    /\ column = 0
    /\ xvg_ret = None

\* values of the quantity variables while no quantity is computed
DimIdle ==
    /\ q_lhs = "length"
    /\ q_rhs = "length"
    /\ q_op = "mul"
    /\ q_dim = None

\* values of the cell-list call variables while no such call is made
ClIdle ==
    /\ cl_args = None
    /\ cl_ret = None

\* values of the State variables while no State is in use
MdIdle ==
    /\ state = [topology |-> [atoms |-> << >>, lj_cutoff |-> 0],
                positions |-> << >>,
                velocities |-> << >>,
                pairlist |-> << >>,
                boxvecs |-> <<ZeroVec, ZeroVec, ZeroVec>>]
    /\ pc = "idle"
    /\ prev_energy = None
    /\ accepts_since_pairlist_regen = 0
    /\ step_n = 0
    /\ forces = None

ExtIdle == TopIdle /\ IoIdle /\ DimIdle /\ ClIdle /\ MdIdle

\* values of the function-call variables while only the lists are used
FnIdle ==
    /\ step = "idle"
    /\ arg_a = ZeroVec
    /\ arg_b = ZeroVec
    /\ arg_bc = NoBounds
    /\ arg_cutoff = None
    /\ arg_n = ZeroVec
    /\ ret_ab = None
    /\ ret_ba = None
    /\ ret_open = None
    /\ ret_shifted = None
    /\ ret_checks = "pending"

InitDist ==
    /\ NlIdle
    /\ ExtIdle
    /\ step = "start"
    /\ arg_a \in Grid
    /\ arg_b \in Grid \cup {FarPoint}
    /\ arg_bc \in DistBoundaries
    /\ arg_cutoff = None
    /\ arg_n = ZeroVec
    /\ ret_ab = None
    /\ ret_ba = None
    /\ ret_open = None
    /\ ret_shifted = None
    /\ ret_checks = "pending"

\* boundaries.dist2(a, b)
CallDist2 ==
    /\ step = "start"
    /\ ret_ab' = Some(dist2(arg_bc, arg_a, arg_b))
    /\ step' = "ab"
    /\ UNCHANGED <<extVars, nlVars, arg_a, arg_b, arg_bc, arg_cutoff, arg_n,
                   ret_ba, ret_open, ret_shifted, ret_checks>>

\* boundaries.dist2(b, a)
CallDist2Swapped ==
    /\ step = "ab"
    /\ ret_ba' = Some(dist2(arg_bc, arg_b, arg_a))
    /\ step' = "ba"
    /\ UNCHANGED <<extVars, nlVars, arg_a, arg_b, arg_bc, arg_cutoff, arg_n,
                   ret_ab, ret_open, ret_shifted, ret_checks>>

\* NoBounds.dist2(a, b)
CallDist2Open ==
    /\ step = "ba"
    /\ ret_open' = Some(dist2(NoBounds, arg_a, arg_b))
    /\ step' = "done"
    /\ UNCHANGED <<extVars, nlVars, arg_a, arg_b, arg_bc, arg_cutoff, arg_n,
                   ret_ab, ret_ba, ret_shifted, ret_checks>>

NextDist == CallDist2 \/ CallDist2Swapped \/ CallDist2Open

SpecDist == InitDist /\ [][NextDist]_vars

\* boundaries.dist2(a + v, b) for a lattice vector v of a periodic box
CallDist2Translated ==
    /\ step = "ab"
    /\ arg_bc.type = "Pbc"
    /\ \E n \in Shifts :
          /\ arg_n' = n
          /\ ret_shifted' = Some(dist2(arg_bc, translate(arg_bc, arg_a, n), arg_b))
    /\ step' = "shifted"
    /\ UNCHANGED <<extVars, nlVars, arg_a, arg_b, arg_bc, arg_cutoff,
                   ret_ab, ret_ba, ret_open, ret_checks>>

NextLattice == CallDist2 \/ CallDist2Translated

SpecLattice == InitDist /\ [][NextLattice]_vars

InitChecks ==
    /\ NlIdle
    /\ ExtIdle
    /\ step = "start"
    /\ arg_a = ZeroVec
    /\ arg_b = ZeroVec
    /\ arg_bc \in CheckBoundaries
    /\ arg_cutoff \in CheckCutoffs
    /\ arg_n = ZeroVec
    /\ ret_ab = None
    /\ ret_ba = None
    /\ ret_open = None
    /\ ret_shifted = None
    /\ ret_checks = "pending"

\* boundaries.pairlist_checks(&pairlist), pairlist.cutoff() being arg_cutoff
CallPairlistChecks ==
    /\ step = "start"
    /\ ret_checks' = pairlist_checks(arg_bc, arg_cutoff)
    /\ step' = "done"
    /\ UNCHANGED <<extVars, nlVars, arg_a, arg_b, arg_bc, arg_cutoff, arg_n,
                   ret_ab, ret_ba, ret_open, ret_shifted>>

NextChecks == CallPairlistChecks

SpecChecks == InitChecks /\ [][NextChecks]_vars

(***************************************************************************)
(* Construction.  A caller draws the arguments, calls one constructor and, *)
(* when it got a topology, looks up the LJ parameters of atoms in it.      *)
(***************************************************************************)
SeqsUpTo(S, n) == UNION {[1..k -> S] : k \in 0..n}

\* the rows a parameter table is made of, and the cutoffs in use
ParamRows == {LjParams(1, 1), LjParams(2, 4), LjParams(3, 1)}
LjCutoffs == {1, 2}

InitTopology ==
    /\ NlIdle
    /\ FnIdle
    /\ IoIdle
    /\ DimIdle
    /\ ClIdle
    /\ MdIdle
    /\ ctor = "none"
    /\ atoms \in SeqsUpTo(0..MaxRows, MaxAtoms)
    /\ atom_names \in {[k \in 1..n |-> "LJ"] :
                          n \in {m \in 0..MaxAtoms : abs(m - Len(atoms)) <= 1}}
    /\ lj_params \in SeqsUpTo(ParamRows, MaxRows)
    /\ lj_cutoff \in {None} \cup {Some(c) : c \in LjCutoffs}
    /\ result = "pending"
    /\ topology = None
    /\ pairlist = None
    /\ got = None
    /\ energy = None

\* Topology::new(atoms, atom_names, lj_params, lj_cutoff)
TopologyNew ==
    /\ ctor = "none"
    /\ lj_cutoff # None
    /\ LET r == Topology_new(atoms, atom_names, lj_params, lj_cutoff[1]) IN
          /\ result' = r.res
          /\ topology' = r.val
    /\ ctor' = "Topology::new"
    /\ UNCHANGED <<nlVars, fnVars, ioVars, dimVars, clVars, atoms, atom_names, lj_params, lj_cutoff,
                   pairlist, got, energy, mdVars>>

\* LjPotential::with_pairlist(atoms, lj_params, &pairlist)
LjPotentialWithPairlist ==
    /\ ctor = "none"
    /\ LET r == LjPotential_with_pairlist(atoms, lj_params, lj_cutoff) IN
          /\ result' = r.res
          /\ topology' = r.val
    /\ ctor' = "LjPotential::with_pairlist"
    /\ UNCHANGED <<nlVars, fnVars, ioVars, dimVars, clVars, atoms, atom_names, lj_params, lj_cutoff,
                   pairlist, got, energy, mdVars>>

\* pairlist::simple::SimplePairlist::new(cutoff)
PairlistNew ==
    /\ ctor = "none"
    /\ LET r == pairlist_SimplePairlist_new(lj_cutoff) IN
          /\ result' = r.res
          /\ pairlist' = r.val
    /\ ctor' = "SimplePairlist::new"
    /\ UNCHANGED <<nlVars, fnVars, ioVars, dimVars, clVars, atoms, atom_names, lj_params, lj_cutoff,
                   topology, got, energy, mdVars>>

\* topology.get_lj_params(i) and topology.get_lj_pair(i, j)
GetLjPair ==
    /\ topology # None
    /\ got = None
    /\ \E i \in 0..MaxAtoms, j \in 0..MaxAtoms :
          got' = Some([i |-> i, j |-> j,
                       params |-> get_lj_params(topology[1], i),
                       pair |-> get_lj_pair(topology[1], i, j)])
    /\ UNCHANGED <<nlVars, fnVars, ioVars, dimVars, clVars, ctor, atoms, atom_names, lj_params, lj_cutoff,
                   result, topology, pairlist, energy, mdVars>>

NextTopology == TopologyNew \/ LjPotentialWithPairlist \/ PairlistNew \/ GetLjPair

SpecTopology == InitTopology /\ [][NextTopology]_vars

(***************************************************************************)
(* Reading a column of an xvg file.                                        *)
(***************************************************************************)
XvgLines ==
    { << >>,
      <<" ">>,
      <<"#", " ", "1">>,
      <<" ", "@", "1">>,
      <<"1">>,
      <<"1", " ", "2">>,
      <<" ", "1", " ", " ", "2", "3", " ">>,
      <<"2", "#">>,
      <<"mu", " ", "1">>,
      <<"1", " ", "mu">> }

InitXvg ==
    /\ NlIdle
    /\ FnIdle
    /\ TopIdle
    /\ DimIdle
    /\ ClIdle
    /\ MdIdle
    /\ xvg_file \in SeqsUpTo(XvgLines, MaxLines)
    /\ column \in 0..MaxColumn
    /\ xvg_ret = None

\* read_xvg(path, column) on a file that opens
ReadXvg ==
    /\ xvg_ret = None
    /\ xvg_ret' = Some(read_xvg(xvg_file, column))
    /\ UNCHANGED <<nlVars, fnVars, topVars, dimVars, clVars, xvg_file, column, mdVars>>

\* read_xvg(path, column) when File::open fails
ReadXvgOpenFails ==
    /\ xvg_ret = None
    /\ xvg_ret' = Some([res |-> "File::open", out |-> << >>])
    /\ UNCHANGED <<nlVars, fnVars, topVars, dimVars, clVars, xvg_file, column, mdVars>>

NextXvg == ReadXvg \/ ReadXvgOpenFails

SpecXvg == InitXvg /\ [][NextXvg]_vars

(***************************************************************************)
(* Arithmetic on quantities: a program multiplies or divides a value of    *)
(* one quantity type by a value of another.                                *)
(***************************************************************************)
InitDim ==
    /\ NlIdle
    /\ FnIdle
    /\ TopIdle
    /\ IoIdle
    /\ ClIdle
    /\ MdIdle
    /\ q_lhs \in Quantities
    /\ q_rhs \in Quantities
    /\ q_op \in {"mul", "div"}
    /\ q_dim = None

\* lhs * rhs
Multiply ==
    /\ q_dim = None
    /\ q_op = "mul"
    /\ q_dim' = Some(dim_mul(dimension[q_lhs], dimension[q_rhs]))
    /\ UNCHANGED <<nlVars, fnVars, topVars, ioVars, clVars, q_lhs, q_rhs, q_op, mdVars>>

\* lhs / rhs
Divide ==
    /\ q_dim = None
    /\ q_op = "div"
    /\ q_dim' = Some(dim_div(dimension[q_lhs], dimension[q_rhs]))
    /\ UNCHANGED <<nlVars, fnVars, topVars, ioVars, clVars, q_lhs, q_rhs, q_op, mdVars>>

NextDim == Multiply \/ Divide

SpecDim == InitDim /\ [][NextDim]_vars

(***************************************************************************)
(* The neighbour list in use.  A list is constructed, then its owner calls *)
(* regenerate and update on it with a frame and the boundary conditions.   *)
(* Each frame passed differs from the frame of the previous call by at     *)
(* most one atom moved, appended or removed.  A call that panics ends the  *)
(* program.                                                                *)
(***************************************************************************)
Buffers == {0, 1}

NextFrames(pos) ==
    {pos}
    \cup {[pos EXCEPT ![k] = p] : k \in 1..Len(pos), p \in Sites}
    \cup {Append(pos, p) : p \in IF Len(pos) < MaxAtoms THEN Sites ELSE {}}
    \cup {SubSeq(pos, 1, Len(pos) - 1) : k \in IF Len(pos) > 0 THEN {1} ELSE {}}

\* SimplePairlist::new(cutoff) or VerletPairlist::with_buffer(cutoff, buffer, n_cells);
\* a SimplePairlist has no cell list, and cell_list then keeps one unused value
Init ==
    /\ FnIdle
    /\ ExtIdle
    /\ kind \in {"simple", "verlet"}
    /\ cutoff \in 1..MaxCutoff
    /\ boundaries \in IF kind = "simple" THEN ListBoundaries ELSE {NoBounds}
    /\ positions = << >>
    /\ pairs = << >>
    /\ cell_list \in IF kind = "simple"
                     THEN {with_buffer(1, 0, 1)}
                     ELSE {with_buffer(cutoff, buffer, n_cells) :
                              buffer \in Buffers, n_cells \in 1..MaxCells}
    /\ status = "ok"
    /\ lastOp = "new"
    /\ prevOp = "none"

SimpleRegenerate ==
    /\ kind = "simple"
    /\ status = "ok"
    /\ \E frame \in NextFrames(positions) :
          /\ positions' = frame
          /\ pairs' = SimplePairlist_regenerate(pairs, frame, boundaries, cutoff)
    /\ lastOp' = "regenerate"
    /\ prevOp' = lastOp
    /\ UNCHANGED <<kind, cutoff, boundaries, cell_list, status, fnVars, extVars>>

SimpleUpdate ==
    /\ kind = "simple"
    /\ status = "ok"
    /\ \E frame \in NextFrames(positions) :
          LET r == Neighbourlist_update(pairs, frame, boundaries) IN
          /\ positions' = frame
          /\ pairs' = r.pairs
          /\ status' = r.st
    /\ lastOp' = "update"
    /\ prevOp' = lastOp
    /\ UNCHANGED <<kind, cutoff, boundaries, cell_list, fnVars, extVars>>

VerletRegenerate ==
    /\ kind = "verlet"
    /\ status = "ok"
    /\ \E frame \in NextFrames(positions) :
          LET r == VerletPairlist_regenerate(pairs, cell_list, frame, boundaries) IN
          /\ positions' = frame
          /\ pairs' = r.pairs
          /\ cell_list' = r.cell_list
          /\ status' = r.st
    /\ lastOp' = "regenerate"
    /\ prevOp' = lastOp
    /\ UNCHANGED <<kind, cutoff, boundaries, fnVars, extVars>>

VerletUpdate ==
    /\ kind = "verlet"
    /\ status = "ok"
    /\ \E frame \in NextFrames(positions) :
          LET r == Neighbourlist_update(pairs, frame, boundaries) IN
          /\ positions' = frame
          /\ pairs' = r.pairs
          /\ status' = r.st
    /\ lastOp' = "update"
    /\ prevOp' = lastOp
    /\ UNCHANGED <<kind, cutoff, boundaries, cell_list, fnVars, extVars>>

Next == SimpleRegenerate \/ SimpleUpdate \/ VerletRegenerate \/ VerletUpdate

Spec == Init /\ [][Next]_vars

(***************************************************************************)
(* The pair list of the pairlist module in use: it is constructed with a   *)
(* cutoff and its owner calls update on it with successive frames.         *)
(***************************************************************************)
InitPairlist ==
    /\ FnIdle
    /\ ExtIdle
    /\ kind = "pairlist"
    /\ cutoff \in 1..MaxCutoff
    /\ boundaries \in ListBoundaries
    /\ positions = << >>
    /\ pairs = << >>
    /\ cell_list = with_buffer(1, 0, 1)
    /\ status = "ok"
    /\ lastOp = "new"
    /\ prevOp = "none"

PairlistUpdate ==
    /\ kind = "pairlist"
    /\ \E frame \in NextFrames(positions) :
          /\ positions' = frame
          /\ pairs' = pairlist_SimplePairlist_update(pairs, frame, boundaries, cutoff)
    /\ lastOp' = "update"
    /\ prevOp' = lastOp
    /\ UNCHANGED <<kind, cutoff, boundaries, cell_list, status, fnVars, extVars>>

NextPairlist == PairlistUpdate

SpecPairlist == InitPairlist /\ [][NextPairlist]_vars

(***************************************************************************)
(* The potential in use.  The owner of a SimplePairlist builds a topology, *)
(* regenerates the list on frames and computes the Lennard-Jones energy of *)
(* the list's entries.                                                     *)
(***************************************************************************)
LjTables == {<<LjParams(1, 1)>>, <<LjParams(1, 1), LjParams(2, 4)>>}

InitLj ==
    /\ FnIdle
    /\ IoIdle
    /\ DimIdle
    /\ ClIdle
    /\ MdIdle
    /\ kind = "simple"
    /\ cutoff \in LjCutoffs
    /\ boundaries \in ListBoundaries
    /\ positions = << >>
    /\ pairs = << >>
    /\ cell_list = with_buffer(1, 0, 1)
    /\ status = "ok"
    /\ lastOp = "new"
    /\ prevOp = "none"
    /\ ctor = "none"
    /\ lj_params \in LjTables
    /\ atoms \in UNION {[1..n -> 0..(Len(lj_params) - 1)] : n \in {MaxAtoms - 1, MaxAtoms}}
    /\ atom_names = [k \in 1..Len(atoms) |-> "LJ"]
    /\ lj_cutoff \in {Some(c) : c \in LjCutoffs}
    /\ result = "pending"
    /\ topology = None
    /\ pairlist = None
    /\ got = None
    /\ energy = None

\* topology.lj_potential(pairlist), the pair list being the list's entries
LjPotential ==
    /\ topology # None
    /\ status = "ok"
    /\ LET r == Topology_lj_potential(topology[1], pairs) IN
          /\ status' = r.st
          /\ energy' = IF r.st = "ok" THEN Some([res |-> "Ok", energy |-> r.energy])
                       ELSE None
    /\ lastOp' = "lj_potential"
    /\ prevOp' = lastOp
    /\ UNCHANGED <<kind, cutoff, boundaries, positions, pairs, cell_list, fnVars,
                   ioVars, dimVars, clVars, ctor, atoms, atom_names, lj_params, lj_cutoff, result, topology,
                   pairlist, got, mdVars>>

\* potential.evaluate(&neighbourlist)
Evaluate ==
    /\ topology # None
    /\ status = "ok"
    /\ LET r == Potential_evaluate(topology[1], neighbourlist_params(cutoff), pairs) IN
          /\ status' = r.st
          /\ energy' = IF r.st = "ok" THEN Some([res |-> r.res, energy |-> r.energy])
                       ELSE None
    /\ lastOp' = "evaluate"
    /\ prevOp' = lastOp
    /\ UNCHANGED <<kind, cutoff, boundaries, positions, pairs, cell_list, fnVars,
                   ioVars, dimVars, clVars, ctor, atoms, atom_names, lj_params, lj_cutoff, result, topology,
                   pairlist, got, mdVars>>

NextLj == TopologyNew \/ SimpleRegenerate \/ LjPotential \/ Evaluate

SpecLj == InitLj /\ [][NextLj]_vars

(***************************************************************************)
(* A cell list in use.  A CellList is built over a frame with cells of     *)
(* side 1, and atoms are then moved from cell to cell.                     *)
(***************************************************************************)
MoveGrids == {<<MaxCells, 1, 1>>}

InitCells ==
    /\ FnIdle
    /\ TopIdle
    /\ IoIdle
    /\ DimIdle
    /\ ClIdle
    /\ MdIdle
    /\ kind = "cells"
    /\ cutoff = 1
    /\ boundaries = NoBounds
    /\ positions \in SeqsUpTo(Sites, MaxAtoms) \ {<< >>}
    /\ pairs = << >>
    /\ cell_list \in {CellList_new(n_cells, <<1, 1, 1>>, positions).cl : n_cells \in MoveGrids}
    /\ status = "ok"
    /\ lastOp = "new"
    /\ prevOp = "none"

\* cell_list.move_atom(atom_index, old_cell, new_cell)
MoveAtom ==
    /\ kind = "cells"
    /\ status = "ok"
    /\ \E atom_index \in 0..(Len(cell_list.indices) - 1),
          old_cell \in 0..(Len(cell_list.head) - 1),
          new_cell \in 0..(Len(cell_list.head) - 1) :
          LET r == move_atom(cell_list, atom_index, old_cell, new_cell) IN
          /\ cell_list' = r.cl
          /\ status' = r.st
          /\ cl_args' = Some([atom_index |-> atom_index,
                              old_cell |-> old_cell,
                              new_cell |-> new_cell])
    /\ lastOp' = "move_atom"
    /\ prevOp' = lastOp
    /\ UNCHANGED <<kind, cutoff, boundaries, positions, pairs, fnVars, topVars,
                   ioVars, dimVars, cl_ret, mdVars>>

NextCells == MoveAtom

SpecCells == InitCells /\ [][NextCells]_vars

(***************************************************************************)
(* A cell list following a frame.  The owner of the CellList moves one     *)
(* atom of the frame and tells the list: the old cell is the cell of the   *)
(* atom's position before the move, the new cell that of its position      *)
(* after it.                                                               *)
(***************************************************************************)
MoveAtomOfFrame ==
    /\ kind = "cells"
    /\ status = "ok"
    /\ \E atom_index \in 0..(Len(positions) - 1), p \in Sites :
          LET old_cell == position_to_cell(cell_list, positions[atom_index + 1])
              new_cell == position_to_cell(cell_list, p)
              r == move_atom(cell_list, atom_index, old_cell, new_cell)
          IN  /\ positions' = [positions EXCEPT ![atom_index + 1] = p]
              /\ cell_list' = r.cl
              /\ status' = r.st
              /\ cl_args' = Some([atom_index |-> atom_index,
                                  old_cell |-> old_cell,
                                  new_cell |-> new_cell])
    /\ lastOp' = "move_atom"
    /\ prevOp' = lastOp
    /\ UNCHANGED <<kind, cutoff, boundaries, pairs, fnVars, topVars,
                   ioVars, dimVars, cl_ret, mdVars>>

NextMoves == MoveAtomOfFrame

SpecMoves == InitCells /\ [][NextMoves]_vars

(***************************************************************************)
(* The cells around a cell.  A CellList over an empty frame is asked for   *)
(* the neighbours of one of its cells.                                     *)
(***************************************************************************)
NeighbourGrids == {<<1, 1, 1>>, <<3, 3, 3>>, <<4, 3, 3>>, <<3, 4, 5>>}

InitNeighbours ==
    /\ FnIdle
    /\ TopIdle
    /\ IoIdle
    /\ DimIdle
    /\ ClIdle
    /\ MdIdle
    /\ kind = "cells"
    /\ cutoff = 1
    /\ boundaries = NoBounds
    /\ positions = << >>
    /\ pairs = << >>
    /\ cell_list \in {CellList_new(n_cells, <<1, 1, 1>>, << >>).cl : n_cells \in NeighbourGrids}
    /\ status = "ok"
    /\ lastOp = "new"
    /\ prevOp = "none"

\* cell_list.iter_neighbouring_cells(cell, 1), collected
IterNeighbouringCells ==
    /\ kind = "cells"
    /\ cl_ret = None
    /\ \E cell \in 0..(Len(cell_list.head) - 1) :
          /\ cl_args' = Some([cell |-> cell, neighbours |-> 1])
          /\ cl_ret' = Some(iter_neighbouring_cells(cell_list, cell, 1))
    /\ lastOp' = "iter_neighbouring_cells"
    /\ prevOp' = lastOp
    /\ UNCHANGED <<kind, cutoff, boundaries, positions, pairs, cell_list, status,
                   fnVars, topVars, ioVars, dimVars, mdVars>>

NextNeighbours == IterNeighbouringCells

SpecNeighbours == InitNeighbours /\ [][NextNeighbours]_vars

(***************************************************************************)
(* The grid of a cell list.  A CellList over an empty frame is asked for   *)
(* the cell of a position and for the list of its cells.                   *)
(***************************************************************************)
GridShapes == {<<i, j, k>> : i \in 1..MaxCells, j \in 1..MaxCells, k \in 1..MaxCells}
CellLengths == {<<1, 1, 1>>, <<2, 1, 2>>}

\* coordinates from below 0 to the far edge of the largest grid
ProbeCoords == (-1)..(2 * MaxCells)
Probes == {<<x, y, z>> : x \in ProbeCoords, y \in ProbeCoords, z \in ProbeCoords}

InitGrid ==
    /\ FnIdle
    /\ TopIdle
    /\ IoIdle
    /\ DimIdle
    /\ ClIdle
    /\ MdIdle
    /\ kind = "cells"
    /\ cutoff = 1
    /\ boundaries = NoBounds
    /\ positions = << >>
    /\ pairs = << >>
    /\ cell_list \in {CellList_new(n_cells, cell_length, << >>).cl :
                         n_cells \in GridShapes, cell_length \in CellLengths}
    /\ status = "ok"
    /\ lastOp = "new"
    /\ prevOp = "none"

\* cell_list.position_to_cell(&position)
PositionToCell ==
    /\ kind = "cells"
    /\ cl_ret = None
    /\ \E position \in Probes :
          /\ cl_args' = Some([position |-> position])
          /\ cl_ret' = Some(position_to_cell(cell_list, position))
    /\ lastOp' = "position_to_cell"
    /\ prevOp' = lastOp
    /\ UNCHANGED <<kind, cutoff, boundaries, positions, pairs, cell_list, status,
                   fnVars, topVars, ioVars, dimVars, mdVars>>

\* cell_list.iter_cells(), collected
IterCells ==
    /\ kind = "cells"
    /\ cl_ret = None
    /\ cl_args' = None
    /\ cl_ret' = Some(iter_cells(cell_list))
    /\ lastOp' = "iter_cells"
    /\ prevOp' = lastOp
    /\ UNCHANGED <<kind, cutoff, boundaries, positions, pairs, cell_list, status,
                   fnVars, topVars, ioVars, dimVars, mdVars>>

NextGrid == PositionToCell \/ IterCells

SpecGrid == InitGrid /\ [][NextGrid]_vars

(***************************************************************************)
(* The forces of a frame.  A caller holds a State (a topology of two or    *)
(* three atoms of unit mass, a frame, a pairlist that gen_pairs produced   *)
(* for this or an earlier frame, a cubic box) and calls calc_forces on it  *)
(* as simulate does.                                                       *)
(***************************************************************************)
MdSites == {<<0, 0, 0>>, <<1, 0, 0>>, <<0, 2, 0>>}
MdBoxes == {<<<<d, 0, 0>>, <<0, d, 0>>, <<0, 0, d>>>> : d \in {3, 20}}
MdSizes == {2, 3}

\* (sigma, lj_cutoff) of the topologies
MdSigmaCutoffs == {<<1, 1>>, <<1, 2>>, <<2, 2>>}

\* topologies of len atoms: one sigma for all atoms, the second atom's
\* epsilon either that of the others or another
MdTops(len) ==
    {[atoms |-> [a \in 1..len |-> Atom(1, IF a = 2 THEN e ELSE 1, sc[1])],
      lj_cutoff |-> sc[2]] : e \in {1, 3}, sc \in MdSigmaCutoffs}

\* the element of rank k (from 1) of a set of numbers
Kth(S, k) == CHOOSE x \in S : Cardinality({y \in S : y < x}) = k - 1

\* the pairlists gen_pairs can have left: sub-sequences of the combinations
MdPairlists(len) ==
    {[k \in 1..Cardinality(S) |-> tuple_combinations(len)[Kth(S, k)]] :
        S \in SUBSET (1..Len(tuple_combinations(len)))}

InitForces ==
    /\ NlIdle
    /\ FnIdle
    /\ TopIdle
    /\ IoIdle
    /\ DimIdle
    /\ ClIdle
    /\ \E len \in MdSizes :
          state \in [topology : MdTops(len),
                     positions : [1..len -> MdSites],
                     velocities : {[a \in 1..len |-> ZeroVec]},
                     pairlist : MdPairlists(len),
                     boxvecs : MdBoxes]
    /\ pc = "idle"
    /\ prev_energy = None
    /\ accepts_since_pairlist_regen = 0
    /\ step_n = 0
    /\ forces = None

\* self.topology.calc_forces(&self.positions, &self.pairlist, |ri, rj| self.dist2(ri, rj))
CalcForces ==
    /\ forces = None
    /\ forces' = Some(Top_calc_forces(state.topology, state.positions,
                                      state.pairlist, state.boxvecs))
    /\ UNCHANGED <<nlVars, fnVars, topVars, ioVars, dimVars, clVars,
                   state, pc, prev_energy, accepts_since_pairlist_regen, step_n>>

NextForces == CalcForces

SpecForces == InitForces /\ [][NextForces]_vars

(***************************************************************************)
(* State::sample, the Metropolis loop.  One action is one iteration of the *)
(* loop; nsteps is any number, so the loop may end before any iteration.   *)
(* The random displacement of an attempt is a choice of the attempted      *)
(* frame, and the random number the acceptance is compared with is a       *)
(* choice of the outcome where accept_prob leaves one.                     *)
(***************************************************************************)
steps_between_pairlist_updates == 1000

\* pairlist_cutoff of sample: lj_cutoff + (steps_between_pairlist_updates / 5)
\* * move_std_dev nm with move_std_dev = 0.001, as a rational
sample_pairlist_cutoff(top) ==
    <<top.lj_cutoff * 1000 + steps_between_pairlist_updates \div 5, 1000>>

SampleSites == {<<0, 0, 0>>, <<2, 0, 0>>, <<4, 0, 0>>}
SampleTop == [atoms |-> <<Atom(1, 1, 1), Atom(1, 1, 1)>>, lj_cutoff |-> 2]
SampleBox == <<<<20, 0, 0>>, <<0, 20, 0>>, <<0, 0, 20>>>>

\* the State that State::new returns: the pairlist generated without cutoff
InitSample ==
    /\ NlIdle
    /\ FnIdle
    /\ TopIdle
    /\ IoIdle
    /\ DimIdle
    /\ ClIdle
    /\ \E ps \in [1..2 -> SampleSites] :
          state = [topology |-> SampleTop,
                   positions |-> ps,
                   velocities |-> [a \in 1..2 |-> ZeroVec],
                   pairlist |-> gen_pairs(ps, SampleBox, <<0, 1>>),
                   boxvecs |-> SampleBox]
    /\ pc = "idle"
    /\ prev_energy = None
    /\ accepts_since_pairlist_regen = 0
    /\ step_n = 0
    /\ forces = None

\* self.gen_pairs(pairlist_cutoff)
sample_gen_pairs(st) ==
    [st EXCEPT !.pairlist =
        gen_pairs(st.positions, st.boxvecs, sample_pairlist_cutoff(st.topology))]

\* the statements of sample before its loop
SampleStart ==
    /\ pc = "idle"
    /\ state' = sample_gen_pairs(state)
    /\ prev_energy' = Some(State_calc_energy(state').energy)
    /\ accepts_since_pairlist_regen' = 0
    /\ pc' = "loop"
    /\ UNCHANGED <<nlVars, fnVars, topVars, ioVars, dimVars, clVars, step_n, forces>>

\* the regeneration at the head of an iteration: [state, prev_energy, accepts]
sample_regen_keep(st, prev, accepts) ==
    IF accepts % steps_between_pairlist_updates = 0 /\ accepts # 0
    THEN [state |-> sample_gen_pairs(st), prev_energy |-> prev, accepts |-> 0]
    ELSE [state |-> st, prev_energy |-> prev, accepts |-> accepts]

sample_regen(st, prev, accepts) ==
    IF accepts % steps_between_pairlist_updates = 0 /\ accepts # 0
    THEN [state |-> sample_gen_pairs(st),
          prev_energy |-> State_calc_energy(sample_gen_pairs(st)).energy,
          accepts |-> 0]
    ELSE [state |-> st, prev_energy |-> prev, accepts |-> accepts]

\* the accepted branch: [state, prev_energy, accepts]
sample_accept_keep(st, prev, accepts, attempt_pos) ==
    [state |-> [st EXCEPT !.positions = attempt_pos],
     prev_energy |-> prev,
     accepts |-> accepts + 1]

sample_accept(st, prev, accepts, attempt_pos) ==
    [state |-> [st EXCEPT !.positions = attempt_pos],
     prev_energy |-> State_calc_energy([st EXCEPT !.positions = attempt_pos]).energy,
     accepts |-> accepts + 1]

\* accept_prob >= rng.gen() for a positive temperature and a random number
\* in [0, 1): sure when energy_diff >= 0, never when it is NaN, else open
sample_outcomes(energy_diff) ==
    IF energy_diff = NaN THEN {FALSE}
    ELSE IF energy_diff[1] >= 0 THEN {TRUE}
    ELSE {TRUE, FALSE}

\* one iteration of the loop of sample
SampleStep ==
    /\ pc = "loop"
    /\ \E head \in {sample_regen(state, prev_energy[1], accepts_since_pairlist_regen)} :
       \E attempt_pos \in [1..2 -> SampleSites] :
       \E attempt_energy \in {Top_calc_energy(head.state.topology, attempt_pos,
                                              head.state.pairlist, head.state.boxvecs).energy} :
       \E accepted \in sample_outcomes(f64_sub(head.prev_energy, attempt_energy)) :
       \E out \in {IF accepted
                   THEN sample_accept(head.state, head.prev_energy, head.accepts, attempt_pos)
                   ELSE head} :
          /\ state' = out.state
          /\ prev_energy' = Some(out.prev_energy)
          /\ accepts_since_pairlist_regen' = out.accepts
    /\ UNCHANGED <<nlVars, fnVars, topVars, ioVars, dimVars, clVars, pc, step_n, forces>>

\* the loop ends and sample returns self
SampleReturn ==
    /\ pc = "loop"
    /\ pc' = "done"
    /\ UNCHANGED <<nlVars, fnVars, topVars, ioVars, dimVars, clVars,
                   state, prev_energy, accepts_since_pairlist_regen, step_n, forces>>

NextSample == SampleStart \/ SampleStep \/ SampleReturn

SpecSample == InitSample /\ [][NextSample]_vars

(***************************************************************************)
(* State::simulate, the integration loop.  Positions and velocities are    *)
(* f32 numbers of whole nanometres: a whole number of up to 24 bits is an  *)
(* f32, a longer one is rounded to 24 significant bits.  The frames drawn  *)
(* keep every force a whole number or NaN; a NaN force ends the run in     *)
(* pc = "nan", a wrapping loop that cannot advance ends it in pc = "hang". *)
(***************************************************************************)
MaxSteps == 11
simulate_steps_between_pairlist_updates == 10

\* the spacing of the f32 numbers around a whole number of magnitude mag:
\* the least power of two u with mag < 2^24 * u
RECURSIVE f32_ulp(_, _)
f32_ulp(mag, u) == IF mag < 16777216 * u THEN u ELSE f32_ulp(mag, 2 * u)

\* the f32 nearest to the whole number x, ties to the even mantissa
f32_round(x) ==
    LET mag == IF x < 0 THEN -x ELSE x
        u == f32_ulp(mag, 1)
        q == mag \div u
        r == mag % u
        up == IF 2 * r < u THEN q
              ELSE IF 2 * r > u THEN q + 1
              ELSE IF q % 2 = 0 THEN q ELSE q + 1
    IN  IF x < 0 THEN -(up * u) ELSE up * u

\* r + v.clone() * dt/2.0 on one component
half_step(r, v, dt) == f32_round(r + f32_round(v * dt) \div 2)

\* while pos.x < 0.0 * NM {pos.x += box_x}; pos.x %= box_x on one component:
\* None when an addition leaves the component as it was, so that the loop
\* runs for ever
RECURSIVE wrap_component(_, _)
wrap_component(x, box) ==
    IF x >= 0 THEN Some(x % box)
    ELSE IF f32_round(x + box) = x THEN None
    ELSE wrap_component(f32_round(x + box), box)

\* pairlist_cutoff of simulate: lj_cutoff + 1.0 nm
simulate_pairlist_cutoff(top) == <<top.lj_cutoff + 1, 1>>

\* (new_energy - prev_energy).abs() > buffer_tolerance with the tolerance
\* 0.005, a comparison that is false on NaN
exceeds_buffer_tolerance(new_energy, prev_energy_) ==
    LET d == f64_sub(new_energy, prev_energy_) IN
    /\ d # NaN
    /\ (IF d[1] < 0 THEN -d[1] ELSE d[1]) * 1000 > 5 * d[2]

SimSites == {<<x, 0, 0>> : x \in 0..3}
SimBoxes == {<<<<d, 0, 0>>, <<0, d, 0>>, <<0, 0, d>>>> : d \in {3, 4}}
SimTimesteps == {2}
SimSizes == {1, 2}
SimTop(len) == [atoms |-> [a \in 1..len |-> Atom(1, 1, 1)], lj_cutoff |-> 1]

\* the velocities of a frame of len atoms: a lone atom may be fast, 2^27 nm/ps
SimVelocities(len) ==
    {<<-1, 0, 0>>, <<0, 0, 0>>, <<1, 0, 0>>, <<0, -1, 3>>}
        \cup (IF len = 1 THEN {<<-134217728, 0, 0>>, <<134217728, 0, 0>>} ELSE {})

\* the State that State::new returns: the pairlist generated without cutoff
InitSimulate ==
    /\ NlIdle
    /\ FnIdle
    /\ TopIdle
    /\ IoIdle
    /\ DimIdle
    /\ ClIdle
    /\ \E len \in SimSizes, bx \in SimBoxes :
       \E ps \in [1..len -> SimSites], vs \in [1..len -> SimVelocities(len)] :
          state = [topology |-> SimTop(len),
                   positions |-> ps,
                   velocities |-> vs,
                   pairlist |-> gen_pairs(ps, bx, <<0, 1>>),
                   boxvecs |-> bx]
    /\ pc = "idle"
    /\ prev_energy = None
    /\ accepts_since_pairlist_regen = 0
    /\ step_n = 0
    /\ forces = None

\* the statements of simulate before its loop
SimulateStart ==
    /\ pc = "idle"
    /\ state' = [state EXCEPT !.pairlist =
                    gen_pairs(state.positions, state.boxvecs,
                              simulate_pairlist_cutoff(state.topology))]
    /\ pc' = IF /\ Len(state.velocities) = Len(state.positions)
                /\ Len(state.velocities) = Len(state.topology.atoms)
             THEN "loop" ELSE "panic"
    /\ UNCHANGED <<nlVars, fnVars, topVars, ioVars, dimVars, clVars,
                   prev_energy, accepts_since_pairlist_regen, step_n, forces>>

\* the regeneration at the head of iteration n: [st, state]
simulate_regen(st, n) ==
    IF n % simulate_steps_between_pairlist_updates = 0 /\ n # 0
    THEN LET regen == [st EXCEPT !.pairlist =
                          gen_pairs(st.positions, st.boxvecs,
                                    simulate_pairlist_cutoff(st.topology))]
         IN  IF exceeds_buffer_tolerance(State_calc_energy(regen).energy,
                                         State_calc_energy(st).energy)
             THEN [st |-> "panic", state |-> regen]
             ELSE [st |-> "ok", state |-> regen]
    ELSE [st |-> "ok", state |-> st]

\* the first half step of a frame
simulate_half(st, dt) ==
    [a \in 1..Len(st.positions) |->
        [m \in 1..3 |-> half_step(st.positions[a][m], st.velocities[a][m], dt)]]

\* the two half steps and the velocity update of an iteration on a State
\* whose forces fs are whole numbers
simulate_move(st, fs, dt) ==
    LET half == simulate_half(st, dt)
        vel == [a \in 1..Len(st.velocities) |->
                    [m \in 1..3 |->
                        f32_round(st.velocities[a][m]
                                  + (fs[a][m][1] * dt) \div st.topology.atoms[a].mass)]]
    IN  [st EXCEPT !.velocities = vel,
                   !.positions = [a \in 1..Len(half) |->
                                     [m \in 1..3 |-> half_step(half[a][m], vel[a][m], dt)]]]

\* the wrapping of a frame, None when a loop of it runs for ever
simulate_wrap_positions(positions_, boxvecs) ==
    IF \E a \in 1..Len(positions_), m \in 1..3 :
          wrap_component(positions_[a][m], boxvecs[m][m]) = None
    THEN None
    ELSE Some([a \in 1..Len(positions_) |->
                  [m \in 1..3 |-> wrap_component(positions_[a][m], boxvecs[m][m])[1]]])

\* one iteration of the loop of simulate
SimulateStep ==
    /\ pc = "loop"
    /\ step_n < MaxSteps
    /\ \E dt \in SimTimesteps :
       \E head \in {simulate_regen(state, step_n)} :
       \E half \in {simulate_half(head.state, dt)} :
       \E fs \in {Top_calc_forces(head.state.topology, half,
                                  head.state.pairlist, head.state.boxvecs)} :
          IF head.st = "panic" \/ fs.st = "panic"
          THEN /\ pc' = "panic"
               /\ state' = head.state
               /\ forces' = forces
          ELSE IF \E a \in 1..Len(fs.forces), m \in 1..3 : fs.forces[a][m] = NaN
          THEN /\ pc' = "nan"
               /\ state' = [head.state EXCEPT !.positions = half]
               /\ forces' = Some(fs)
          ELSE \E moved \in {simulate_move(head.state, fs.forces, dt)} :
               \E wrapped \in {simulate_wrap_positions(moved.positions, moved.boxvecs)} :
                  IF wrapped = None
                  THEN /\ pc' = "hang"
                       /\ state' = moved
                       /\ forces' = Some(fs)
                  ELSE /\ pc' = "loop"
                       /\ state' = [moved EXCEPT !.positions = wrapped[1]]
                       /\ forces' = Some(fs)
    /\ step_n' = step_n + 1
    /\ UNCHANGED <<nlVars, fnVars, topVars, ioVars, dimVars, clVars,
                   prev_energy, accepts_since_pairlist_regen>>

\* the loop ends and simulate returns self
SimulateReturn ==
    /\ pc = "loop"
    /\ pc' = "done"
    /\ UNCHANGED <<nlVars, fnVars, topVars, ioVars, dimVars, clVars,
                   state, prev_energy, accepts_since_pairlist_regen, step_n, forces>>

NextSimulate == SimulateStart \/ SimulateStep \/ SimulateReturn

SpecSimulate == InitSimulate /\ [][NextSimulate]_vars

(***************************************************************************)
(* Claims about the neighbour lists.                                       *)
(***************************************************************************)
\* the pairs the contract of regenerate asks for on the frame pos
WithinCutoff(pos, bc, c) ==
    {ij \in (0..(Len(pos) - 1)) \X (0..(Len(pos) - 1)) :
        ij[1] < ij[2] /\ dist2(bc, pos[ij[1] + 1], pos[ij[2] + 1]) < c * c}

StoredIndexPairs == {pairs[k].ij : k \in 1..Len(pairs)}

\* every stored r2 is the distance of its two atoms in the current frame
StoredDistancesCurrent ==
    \A k \in 1..Len(pairs) :
        pairs[k].r2 = dist2(boundaries, positions[pairs[k].ij[1] + 1],
                            positions[pairs[k].ij[2] + 1])

\* C1: after SimplePairlist::regenerate on a frame of N atoms the stored
\* pairs are exactly the (i, j) with 0 <= i < j < N and dist2 < cutoff^2, j
\* the absolute atom index, each stored once with r2 = dist2; a pair at
\* exactly cutoff^2 is not stored.
C1_SimpleRegenerateExact ==
    (kind = "simple" /\ lastOp = "regenerate") =>
        /\ StoredIndexPairs = WithinCutoff(positions, boundaries, cutoff)
        /\ Len(pairs) = Cardinality(WithinCutoff(positions, boundaries, cutoff))
        /\ StoredDistancesCurrent
        /\ \A k \in 1..Len(pairs) : pairs[k].r2 # cutoff * cutoff

\* C1 witness: a regenerate on three atoms that stored a pair and left out a
\* pair that is exactly at the cutoff
C1_Witness ==
    /\ kind = "simple"
    /\ lastOp = "regenerate"
    /\ Len(positions) = 3
    /\ Len(pairs) >= 1
    /\ \E i \in 0..2, j \in 0..2 :
          /\ i < j
          /\ dist2(boundaries, positions[i + 1], positions[j + 1]) = cutoff * cutoff
          /\ <<i, j>> \notin StoredIndexPairs

\* C2: SimplePairlist::regenerate is history independent and idempotent: after
\* any earlier calls it leaves the pair sequence a freshly constructed list
\* gets for the same frame, and a second regenerate on the same frame leaves
\* the pairs as they are.
C2_RegenerateHistoryIndependent ==
    /\ [](kind = "simple" /\ lastOp = "regenerate" =>
            pairs = regenerate_loop(<< >>, positions, boundaries, cutoff * cutoff, 0, 1))
    /\ [][(kind = "simple" /\ lastOp = "regenerate" /\ lastOp' = "regenerate"
            /\ positions' = positions) => pairs' = pairs]_vars

\* C2 witness: a regenerate that followed another regenerate and stored pairs
C2_Witness ==
    /\ kind = "simple"
    /\ lastOp = "regenerate"
    /\ prevOp = "regenerate"
    /\ Len(pairs) >= 2

\* C3 as claimed: every VerletPairlist::regenerate returns and leaves exactly
\* the pairs ((i, j), r2) with i < j and r2 < cutoff^2, each once.
C3_VerletRegenerateExact ==
    (kind = "verlet" /\ lastOp = "regenerate") =>
        /\ status = "ok"
        /\ StoredIndexPairs = WithinCutoff(positions, boundaries, cutoff)
        /\ Len(pairs) = Cardinality(WithinCutoff(positions, boundaries, cutoff))
        /\ StoredDistancesCurrent

\* C4: update leaves the number, the order and the index pairs of the stored
\* entries as they are, adding and dropping none, and an update that returns
\* has replaced every stored r2 by dist2 of the entry's atoms in the new frame.
C4_UpdateKeepsPairs ==
    [][lastOp' = "update" =>
          /\ Len(pairs') = Len(pairs)
          /\ \A k \in 1..Len(pairs) : pairs'[k].ij = pairs[k].ij
          /\ status' = "ok" =>
                \A k \in 1..Len(pairs) :
                    pairs'[k].r2 = dist2(boundaries, positions'[pairs[k].ij[1] + 1],
                                         positions'[pairs[k].ij[2] + 1])]_vars

\* C4 witness: after an update the list holds a pair that is now at or beyond
\* the cutoff, and lacks a pair that is now within it
C4_Witness ==
    /\ lastOp = "update"
    /\ status = "ok"
    /\ \E k \in 1..Len(pairs) : pairs[k].r2 >= cutoff * cutoff
    /\ WithinCutoff(positions, boundaries, cutoff) \ StoredIndexPairs # {}

\* C5 as claimed: in every reachable state every stored entry has i < j and
\* r2 <= cutoff^2.
C5_EntriesWithinCutoff ==
    \A k \in 1..Len(pairs) :
        pairs[k].ij[1] < pairs[k].ij[2] /\ pairs[k].r2 <= cutoff * cutoff

\* C5 as amended: in every reachable state every stored entry has i < j; its
\* r2 is at most cutoff^2 when the last call was regenerate, while after an
\* update it is whatever dist2 gives in the updated frame.
C5_EntriesOrdered ==
    /\ \A k \in 1..Len(pairs) : pairs[k].ij[1] < pairs[k].ij[2]
    /\ lastOp = "regenerate" =>
          \A k \in 1..Len(pairs) : pairs[k].r2 <= cutoff * cutoff
    /\ (lastOp = "update" /\ status = "ok") => StoredDistancesCurrent

\* C5 witness: an update has left an entry whose r2 exceeds cutoff^2
C5_Witness ==
    /\ lastOp = "update"
    /\ \E k \in 1..Len(pairs) :
          pairs[k].ij[1] < pairs[k].ij[2] /\ pairs[k].r2 > cutoff * cutoff

(***************************************************************************)
(* Claims about the boundary functions.                                    *)
(***************************************************************************)

\* C6: pairlist_checks returns Ok if and only if the list declares no
\* cutoff, or the boundaries are NoBounds, or the cutoff is strictly less
\* than the Euclidean length of each of the three box vectors (that is, less
\* than their minimum); otherwise, a cutoff equal to that minimum included,
\* it returns Err(MinimumImageConventionNotJustified).
C6_PairlistChecksIff ==
    ret_checks # "pending" =>
        LET justified ==
                \/ arg_cutoff = None
                \/ arg_bc.type = "NoBounds"
                \/ \A v \in {arg_bc.v1, arg_bc.v2, arg_bc.v3} :
                       arg_cutoff[1] * arg_cutoff[1]
                           < v[1] * v[1] + v[2] * v[2] + v[3] * v[3]
        IN  /\ justified => ret_checks = "Ok"
            /\ ~justified => ret_checks = "MinimumImageConventionNotJustified"

\* C6 witness: a periodic box whose shortest vector is exactly as long as the
\* cutoff has been checked and refused
C6_Witness ==
    /\ ret_checks = "MinimumImageConventionNotJustified"
    /\ arg_bc.type = "Pbc"
    /\ arg_cutoff # None
    /\ \E v \in {arg_bc.v1, arg_bc.v2, arg_bc.v3} : norm2(v) = Sq(arg_cutoff[1])
    /\ \A v \in {arg_bc.v1, arg_bc.v2, arg_bc.v3} : norm2(v) >= Sq(arg_cutoff[1])

\* C7: for both boundary kinds, dist2(a, b) = dist2(b, a) and dist2(a, b) >= 0.
C7_Dist2Symmetric ==
    (ret_ab # None /\ ret_ba # None) =>
        /\ ret_ab[1] = ret_ba[1]
        /\ ret_ab[1] >= 0
        /\ ret_ba[1] >= 0

\* C7 witness: both orders were computed in a periodic box for two points whose
\* nearest image is not the point itself
C7_Witness ==
    /\ ret_ab # None
    /\ ret_ba # None
    /\ arg_bc.type = "Pbc"
    /\ arg_a # arg_b
    /\ ret_ba[1] < default_dist2(arg_b, arg_a)

\* C8: in a periodic box the squared distance never exceeds the open-space
\* squared distance, which is the sum over the axes of (b_k - a_k)^2.
C8_PbcAtMostOpen ==
    (ret_ab # None /\ ret_open # None) =>
        /\ ret_open[1] = (arg_b[1] - arg_a[1]) * (arg_b[1] - arg_a[1])
                       + (arg_b[2] - arg_a[2]) * (arg_b[2] - arg_a[2])
                       + (arg_b[3] - arg_a[3]) * (arg_b[3] - arg_a[3])
        /\ arg_bc.type = "Pbc" => ret_ab[1] <= ret_open[1]

\* C8 witness: a periodic distance strictly below the open-space one
C8_Witness ==
    /\ ret_ab # None
    /\ ret_open # None
    /\ arg_bc.type = "Pbc"
    /\ ret_ab[1] < ret_open[1]

\* the 27 squared image separations |(b - a) + i*v1 + j*v2 + k*v3|^2
ImageSet(bc, a, b) ==
    {norm2([m \in 1..3 |-> (b[m] - a[m]) + i * bc.v1[m] + j * bc.v2[m] + k * bc.v3[m]]) :
        <<i, j, k>> \in {-1, 0, 1} \X {-1, 0, 1} \X {-1, 0, 1}}

\* C9 as claimed: in a periodic box dist2(a + v, b) = dist2(a, b) for every
\* lattice vector v = n1*v1 + n2*v2 + n3*v3.
C9_LatticeInvariant ==
    (ret_ab # None /\ ret_shifted # None) => ret_shifted[1] = ret_ab[1]

\* C10: Pbc::dist2(a, b) is the minimum over the 27 offsets of
\* |(b - a) + i*v1 + j*v2 + k*v3|^2; in the cubic box of side 2 nm the points
\* (0.1, 0, 0) and (1.9, 0, 0) nm are at (0.2 nm)^2, not (1.8 nm)^2.
C10_MinOver27Images ==
    (ret_ab # None /\ arg_bc.type = "Pbc") =>
        /\ ret_ab[1] \in ImageSet(arg_bc, arg_a, arg_b)
        /\ \A s \in ImageSet(arg_bc, arg_a, arg_b) : ret_ab[1] <= s
        /\ (arg_bc = cubic(20) /\ arg_a = <<1, 0, 0>> /\ arg_b = FarPoint) =>
               (ret_ab[1] = 2 * 2 /\ ret_ab[1] # 18 * 18)

\* C10 witness: the example has been computed
C10_Witness ==
    /\ arg_bc = cubic(20)
    /\ arg_a = <<1, 0, 0>>
    /\ arg_b = FarPoint
    /\ ret_ab = Some(4)

(***************************************************************************)
(* Claims about topologies and the Lennard-Jones potential.                *)
(***************************************************************************)

\* C11: Topology::new returns Err(IllegalTopology) whenever the number of
\* atom names differs from the number of atoms or some atom's LJ parameter
\* index is at least the number of parameter rows, and succeeds otherwise; in
\* a topology it built, the pair table is an R x R square over the R rows and
\* get_lj_params(a), get_lj_pair(a, b) are Some for all atoms a, b < N.
C11_TopologyNewChecks ==
    ctor = "Topology::new" =>
        LET illegal == \/ Len(atom_names) # Len(atoms)
                       \/ \E k \in 1..Len(atoms) : atoms[k] >= Len(lj_params)
        IN  /\ illegal => (result = "IllegalTopology" /\ topology = None)
            /\ ~illegal => (result = "Ok" /\ topology # None)
            /\ topology # None =>
                  LET top == topology[1]
                      N == Len(top.atoms)
                      R == Len(top.lj_params)
                  IN  /\ Len(top.lj_params_pairs) = R
                      /\ \A i \in 1..R : Len(top.lj_params_pairs[i]) = R
                      /\ \A k \in 1..N : top.atoms[k] < R
                      /\ \A a \in 0..(N - 1), b \in 0..(N - 1) :
                            /\ get_lj_params(top, a) # None
                            /\ get_lj_pair(top, a, b) # None
                      /\ (got # None /\ got[1].i < N /\ got[1].j < N) =>
                            (got[1].params # None /\ got[1].pair # None)

\* C11 witness: a topology of atoms with two different parameter rows was
\* built, and the pair of two atoms with different rows was looked up in it
C11_Witness ==
    /\ ctor = "Topology::new"
    /\ result = "Ok"
    /\ got # None
    /\ got[1].i < Len(atoms)
    /\ got[1].j < Len(atoms)
    /\ atoms[got[1].i + 1] # atoms[got[1].j + 1]
    /\ got[1].pair # None

\* C12: pairlist::simple::SimplePairlist::new(None) returns
\* Err(CutoffRequired), and new(Some(c)) an empty list with cutoff c;
\* LjPotential::with_pairlist returns Err(CutoffRequired) when the pair list's
\* cutoff is None and all atom indices are valid.
C12_CutoffRequired ==
    /\ ctor = "SimplePairlist::new" =>
          /\ lj_cutoff = None => (result = "CutoffRequired" /\ pairlist = None)
          /\ lj_cutoff # None =>
                /\ result = "Ok"
                /\ pairlist # None
                /\ pairlist[1].pairs = << >>
                /\ pairlist[1].cutoff = lj_cutoff[1]
    /\ ( /\ ctor = "LjPotential::with_pairlist"
         /\ lj_cutoff = None
         /\ \A k \in 1..Len(atoms) : atoms[k] < Len(lj_params) ) =>
          (result = "CutoffRequired" /\ topology = None)

\* C12 witness: with_pairlist was refused for atoms that all have parameters
C12_Witness ==
    /\ ctor = "LjPotential::with_pairlist"
    /\ lj_cutoff = None
    /\ Len(atoms) >= 2
    /\ \A k \in 1..Len(atoms) : atoms[k] < Len(lj_params)
    /\ result = "CutoffRequired"

\* C14: every entry (i, j) of the pair table has sigma_squared =
\* sigma_i * sigma_j and epsilon^2 = epsilon_i * epsilon_j, so the table is
\* symmetric; it is computed at construction and not modified afterwards.
C14_MixingRule ==
    /\ [](topology # None =>
            LET top == topology[1] IN
            \A i \in 1..Len(top.lj_params), j \in 1..Len(top.lj_params) :
                LET P == top.lj_params_pairs IN
                /\ P[i][j].sigma_squared = top.lj_params[i].sigma * top.lj_params[j].sigma
                /\ P[i][j].epsilon * P[i][j].epsilon
                      = top.lj_params[i].epsilon * top.lj_params[j].epsilon
                /\ P[i][j] = P[j][i])
    /\ [][topology # None => topology' = topology]_vars

\* C14 witness: a table over two rows that differ in sigma and in epsilon
\* has been built and used
C14_Witness ==
    /\ topology # None
    /\ got # None
    /\ Len(topology[1].lj_params) = 2
    /\ topology[1].lj_params[1].sigma # topology[1].lj_params[2].sigma
    /\ topology[1].lj_params[1].epsilon # topology[1].lj_params[2].epsilon

RECURSIVE Pow(_, _)
Pow(x, n) == IF n = 0 THEN 1 ELSE x * Pow(x, n - 1)

\* 4*eps*[(sig2/r2)^6 - (sig2/r2)^3] over the common denominator r2^6, for the
\* rows a and b of the parameter table
Unshifted(a, b, r2) ==
    LET sig2 == a.sigma * b.sigma
        eps == CHOOSE e \in 0..(a.epsilon * b.epsilon) : e * e = a.epsilon * b.epsilon
    IN  f64_div(4 * eps * (Pow(sig2, 6) - Pow(sig2, 3) * Pow(r2, 3)), Pow(r2, 6))

\* the sum of the shifted pair terms over the first n entries of the list
RECURSIVE SumOfTerms(_)
SumOfTerms(n) ==
    IF n = 0 THEN <<0, 1>>
    ELSE LET a == lj_params[atoms[pairs[n].ij[1] + 1] + 1]
             b == lj_params[atoms[pairs[n].ij[2] + 1] + 1]
         IN  f64_add(SumOfTerms(n - 1),
                     f64_sub(Unshifted(a, b, pairs[n].r2),
                             Unshifted(a, b, lj_cutoff[1] * lj_cutoff[1])))

C16_FrameEnergy ==
    (lastOp = "lj_potential" /\ status = "ok") =>
        /\ energy # None
        /\ energy[1].res = "Ok"
        /\ energy[1].energy = SumOfTerms(Len(pairs))
        /\ pairs = << >> => energy[1].energy = <<0, 1>>
        /\ ( /\ prevOp = "regenerate"
             /\ Len(positions) = 2
             /\ dist2(boundaries, positions[1], positions[2]) >= cutoff * cutoff ) =>
              energy[1].energy = <<0, 1>>

\* C16 witness: the energy of a list with entries for atoms of different
\* parameter rows has been computed and is not zero
C16_Witness ==
    /\ lastOp = "lj_potential"
    /\ status = "ok"
    /\ Len(pairs) >= 2
    /\ \E k \in 1..Len(pairs) :
          atoms[pairs[k].ij[1] + 1] # atoms[pairs[k].ij[2] + 1]
    /\ energy # None
    /\ energy[1].energy # NaN
    /\ energy[1].energy[1] # 0

(***************************************************************************)
(* Claims about read_xvg.                                                  *)
(***************************************************************************)
\* the first character of the line that is not white space, if any
FirstNonBlank(line) ==
    IF \A n \in 1..Len(line) : line[n] = " " THEN None
    ELSE Some(line[CHOOSE n \in 1..Len(line) :
                      line[n] # " " /\ \A m \in 1..(n - 1) : line[m] = " "])

\* the positions where a token of the line starts, and its k-th token
TokenStarts(line) ==
    {n \in 1..Len(line) : line[n] # " " /\ (n = 1 \/ line[n - 1] = " ")}

TokenAt(line, k) ==
    LET from == CHOOSE n \in TokenStarts(line) :
                    Cardinality({m \in TokenStarts(line) : m < n}) = k
        to == CHOOSE n \in from..Len(line) :
                    /\ \A m \in from..n : line[m] # " "
                    /\ n = Len(line) \/ line[n + 1] = " "
    IN  SubSeq(line, from, to)

\* the lines of the file that are neither blank nor comments, in file order
RECURSIVE DataLines(_)
DataLines(lines) ==
    IF lines = << >> THEN << >>
    ELSE IF FirstNonBlank(Head(lines)) \in {None, Some("#"), Some("@")}
         THEN DataLines(Tail(lines))
         ELSE <<Head(lines)>> \o DataLines(Tail(lines))

\* C17 as claimed: read_xvg skips the blank lines and the lines whose first
\* non-blank character is '#' or '@'; if one of the other lines has fewer
\* than column + 1 tokens it returns an error and no vector, and otherwise it
\* returns, in file order, the token at index column of each other line.
C17_ReadXvgColumn ==
    (xvg_ret # None /\ xvg_ret[1].res # "File::open") =>
        LET data == DataLines(xvg_file) IN
        IF \E n \in 1..Len(data) : Cardinality(TokenStarts(data[n])) < column + 1
        THEN xvg_ret[1].res # "Ok" /\ xvg_ret[1].out = << >>
        ELSE /\ xvg_ret[1].res = "Ok"
             /\ xvg_ret[1].out = [n \in 1..Len(data) |-> TokenAt(data[n], column)]

(***************************************************************************)
(* Claims about the units.                                                 *)
(***************************************************************************)
\* C18: the declared exponents (length, mass, time, charge, temperature) are
\* area = (2,0,0,0,0), energy = (2,1,-2,0,0), force = (1,1,-2,0,0) and
\* velocity = (1,0,-1,0,0), and with multiplication adding and division
\* subtracting exponents, length*length is an area, force*length an energy,
\* length/time a velocity and energy/temperature an entropy.
C18_DimensionExponents ==
    /\ dimension["area"] = <<2, 0, 0, 0, 0>>
    /\ dimension["energy"] = <<2, 1, -2, 0, 0>>
    /\ dimension["force"] = <<1, 1, -2, 0, 0>>
    /\ dimension["velocity"] = <<1, 0, -1, 0, 0>>
    /\ q_dim # None =>
          /\ (q_op = "mul" /\ q_lhs = "length" /\ q_rhs = "length") =>
                q_dim[1] = dimension["area"]
          /\ (q_op = "mul" /\ q_lhs = "force" /\ q_rhs = "length") =>
                q_dim[1] = dimension["energy"]
          /\ (q_op = "div" /\ q_lhs = "length" /\ q_rhs = "time") =>
                q_dim[1] = dimension["velocity"]
          /\ (q_op = "div" /\ q_lhs = "energy" /\ q_rhs = "temperature") =>
                q_dim[1] = dimension["entropy"]

\* C18 witness: a force has been multiplied by a length
C18_Witness ==
    /\ q_dim # None
    /\ q_op = "mul"
    /\ q_lhs = "force"
    /\ q_rhs = "length"
    /\ q_dim[1] = <<2, 1, -2, 0, 0>>

(***************************************************************************)
(* Claims about the cell list.                                             *)
(***************************************************************************)
\* the atoms of a cell, in list order
AtomsOf(cl, cell) == iter_cell_atoms(cl, cell).atoms

Without(atom_seq, a) == SelectSeq(atom_seq, LAMBDA x : x # a)

\* C19 as claimed: move_atom(a, old, new) for an atom a linked in cell old
\* returns, unlinks a from old's list keeping the order of old's other atoms,
\* links a as the last element of new's list with an empty next pointer, and
\* leaves the lists of all other cells as they are; when old = new nothing
\* changes.
C19_MoveAtomRelinks ==
    [][(lastOp' = "move_atom" /\ cl_args' # None) =>
          LET a == cl_args'[1].atom_index
              old == cl_args'[1].old_cell
              new == cl_args'[1].new_cell
          IN  (\E n \in 1..Len(AtomsOf(cell_list, old)) : AtomsOf(cell_list, old)[n] = a) =>
                 /\ status' = "ok"
                 /\ old = new => cell_list' = cell_list
                 /\ old # new =>
                       /\ AtomsOf(cell_list', old) = Without(AtomsOf(cell_list, old), a)
                       /\ AtomsOf(cell_list', new) = Append(AtomsOf(cell_list, new), a)
                       /\ cell_list'.indices[a + 1] = None
                       /\ \A c \in 0..(Len(cell_list.head) - 1) :
                             (c # old /\ c # new) =>
                                AtomsOf(cell_list', c) = AtomsOf(cell_list, c)]_vars

\* the index of the cell (x, y, z) of a grid of n_cells = [i, j, k]
CellIndex(n_cells, x, y, z) == z + n_cells[3] * y + n_cells[2] * n_cells[3] * x

\* C20 as claimed: for a cell in the interior of the grid,
\* iter_neighbouring_cells(cell, 1) yields the cell and its 26 adjacent cells,
\* the cells at every offset in {-1, 0, 1}^3, each exactly once.
C20_NeighbouringCells ==
    cl_ret # None =>
        LET n == cell_list.n_cells IN
        \A x \in 1..(n[1] - 2), y \in 1..(n[2] - 2), z \in 1..(n[3] - 2) :
            cl_args[1].cell = CellIndex(n, x, y, z) =>
                /\ Len(cl_ret[1]) = 27
                /\ {cl_ret[1][m] : m \in 1..Len(cl_ret[1])}
                      = {CellIndex(n, x + dx, y + dy, z + dz) :
                            dx \in {-1, 0, 1}, dy \in {-1, 0, 1}, dz \in {-1, 0, 1}}

\* the axis index the grid gives a coordinate p on an axis of n cells of
\* length l: the cell the coordinate lies in, the first cell below the grid
\* and the last cell beyond it
AxisIndex(p, l, n) ==
    IF p < 0 THEN 0
    ELSE IF p >= n * l THEN n - 1
    ELSE CHOOSE x \in 0..(n - 1) : x * l <= p /\ p < (x + 1) * l

\* C21 as claimed: the index decomposition of iter_neighbouring_cells, applied
\* to the flattened index position_to_cell returns for a position in cell
\* (x, y, z), gives back (x, y, z).
C21_UnflattenInvertsFlatten ==
    (lastOp = "position_to_cell" /\ cl_ret # None) =>
        LET n == cell_list.n_cells
            l == cell_list.cell_length
            p == cl_args[1].position
        IN  cell_idx(n, cl_ret[1])
               = <<AxisIndex(p[1], l[1], n[1]),
                   AxisIndex(p[2], l[2], n[2]),
                   AxisIndex(p[3], l[3], n[3])>>

\* C29 as claimed: iter_cells yields every cell index of the grid, 0 to
\* I*J*K - 1, exactly once, whatever the shape of the grid.
C29_IterCellsEveryCellOnce ==
    (lastOp = "iter_cells" /\ cl_ret # None) =>
        LET n == cell_list.n_cells
            cells == cl_ret[1]
        IN  /\ Len(cells) = n[1] * n[2] * n[3]
            /\ \A c \in 0..(n[1] * n[2] * n[3] - 1) :
                  Cardinality({m \in 1..Len(cells) : cells[m] = c}) = 1

\* C30: position_to_cell returns an index of the grid, the flattened index
\* of per-axis indices clamped to 0..n-1: a coordinate below 0 gives axis
\* index 0, a coordinate at or beyond n*l gives n-1, and a coordinate inside
\* the grid gives the cell it lies in.
C30_PositionToCellClamped ==
    (lastOp = "position_to_cell" /\ cl_ret # None) =>
        LET n == cell_list.n_cells
            l == cell_list.cell_length
            p == cl_args[1].position
        IN  /\ cl_ret[1] \in 0..(n[1] * n[2] * n[3] - 1)
            /\ cl_ret[1] = CellIndex(n, AxisIndex(p[1], l[1], n[1]),
                                        AxisIndex(p[2], l[2], n[2]),
                                        AxisIndex(p[3], l[3], n[3]))

\* C30 witness: a position below the grid on one axis and beyond it on
\* another has been mapped to a cell of a grid with more than one cell on
\* each of these axes
C30_Witness ==
    /\ lastOp = "position_to_cell"
    /\ cl_ret # None
    /\ cl_args[1].position[1] < 0
    /\ cl_args[1].position[2] >= cell_list.n_cells[2] * cell_list.cell_length[2]
    /\ cell_list.n_cells[1] > 1
    /\ cell_list.n_cells[2] > 1
    /\ cl_ret[1] = CellIndex(cell_list.n_cells, 0, cell_list.n_cells[2] - 1,
                             AxisIndex(cl_args[1].position[3],
                                       cell_list.cell_length[3], cell_list.n_cells[3]))

(***************************************************************************)
(* Claims about the pair list of the pairlist module.                      *)
(***************************************************************************)

\* C22 as claimed: after pairlist::simple::SimplePairlist::update every
\* stored pair (i, j) has i < j, j is an index into positions, and the stored
\* r^2 is dist2(positions[i], positions[j]).
C22_PairlistUpdateAbsolute ==
    (kind = "pairlist" /\ lastOp = "update") =>
        \A k \in 1..Len(pairs) :
            /\ pairs[k].ij[1] < pairs[k].ij[2]
            /\ pairs[k].ij[2] < Len(positions)
            /\ pairs[k].r2 = boundaries_dist2(boundaries,
                                              positions[pairs[k].ij[1] + 1],
                                              positions[pairs[k].ij[2] + 1])

(***************************************************************************)
(* Claims about the storage and the partition of the cell list.            *)
(***************************************************************************)

\* C23 as claimed: for a VerletPairlist made by with_buffer, regenerate on a
\* frame of one or more atoms returns Ok: no access of add_atom or of the
\* pair iteration falls outside the head and indices arrays sized at
\* construction.
C23_StorageSuffices ==
    (kind = "verlet" /\ lastOp = "regenerate" /\ Len(positions) >= 1) =>
        /\ status = "ok"
        /\ Len(cell_list.indices) >= Len(positions)

\* C24 as claimed: after CellList::new on a frame and any number of
\* move_atom calls that each name the cell holding the atom as old cell,
\* every cell's list is walked to its end by iter_cell_atoms and every atom
\* of the frame is yielded by exactly one cell, exactly once.
C24_CellsPartitionAtoms ==
    (kind = "cells" /\ status = "ok") =>
        /\ \A c \in 0..(Len(cell_list.head) - 1) : iter_cell_atoms(cell_list, c).st = "ok"
        /\ \A a \in 0..(Len(positions) - 1) :
              Cardinality({<<c, n>> \in (0..(Len(cell_list.head) - 1)) \X (1..Len(positions)) :
                              /\ n <= Len(AtomsOf(cell_list, c))
                              /\ AtomsOf(cell_list, c)[n] = a}) = 1

\* displacements b - a in units of half the length unit
HalfSteps ==
    {<<x, y, z>> : x \in (-2 * MaxBox)..(2 * MaxBox), y \in {0}, z \in {0, 1}}

\* the periodic images of a displacement w (in half units) that lie closer
\* than the cutoff c
ImagesWithin(bc, w, c) ==
    {n \in Shifts :
        norm2([m \in 1..3 |-> w[m] + 2 * (n[1] * bc.v1[m] + n[2] * bc.v2[m] + n[3] * bc.v3[m])])
            < 4 * c * c}

\* C25 as claimed: when Pbc::pairlist_checks has returned Ok for a cutoff c,
\* no two periodic images of a point b lie within c of a point a.
C25_OneImageWithinCutoff ==
    (ret_checks = "Ok" /\ arg_bc.type = "Pbc" /\ arg_cutoff # None) =>
        \A w \in HalfSteps : Cardinality(ImagesWithin(arg_bc, w, arg_cutoff[1])) <= 1

(***************************************************************************)
(* Claims about State and Top of lib.rs.                                   *)
(***************************************************************************)
\* the squared distance State::dist2 gives for pair k of the State's pairlist
PairR2(k) ==
    State_dist2(state.boxvecs, state.positions[state.pairlist[k][1] + 1],
                state.positions[state.pairlist[k][2] + 1]).r2

\* the pairs of the pairlist within the Lennard-Jones cutoff
PairsInCutoff ==
    {k \in 1..Len(state.pairlist) :
        PairR2(k) <= state.topology.lj_cutoff * state.topology.lj_cutoff}

RECURSIVE SumOfForces(_)
SumOfForces(fs) ==
    IF fs = << >> THEN ForceVec_zero ELSE vec_add(Head(fs), SumOfForces(Tail(fs)))

\* C27 as claimed: calc_forces returns one force per atom and the forces sum
\* to the zero vector; atoms in no pair within the cutoff get no force.
C27_ForcesSumToZeroAlways ==
    forces # None =>
        /\ forces[1].st = "ok"
        /\ Len(forces[1].forces) = Len(state.topology.atoms)
        /\ SumOfForces(forces[1].forces) = ForceVec_zero
        /\ \A a \in 1..Len(state.topology.atoms) :
              (\A k \in PairsInCutoff : a - 1 \notin {state.pairlist[k][1], state.pairlist[k][2]})
                  => forces[1].forces[a] = ForceVec_zero

\* C27: calc_forces returns one force per atom; atoms in no pair within the
\* cutoff get the zero force; and when no pair within the cutoff joins two
\* atoms at distance 0, the forces sum to the zero vector, the two atoms of
\* a lone pair within the cutoff getting opposite forces.
C27_ForcesSumToZero ==
    forces # None =>
        /\ forces[1].st = "ok"
        /\ Len(forces[1].forces) = Len(state.topology.atoms)
        /\ \A a \in 1..Len(state.topology.atoms) :
              (\A k \in PairsInCutoff : a - 1 \notin {state.pairlist[k][1], state.pairlist[k][2]})
                  => forces[1].forces[a] = ForceVec_zero
        /\ (\A k \in PairsInCutoff : PairR2(k) > 0) =>
              /\ SumOfForces(forces[1].forces) = ForceVec_zero
              /\ \A k \in PairsInCutoff :
                    PairsInCutoff = {k} =>
                       forces[1].forces[state.pairlist[k][1] + 1]
                          = vec_sub(ForceVec_zero, forces[1].forces[state.pairlist[k][2] + 1])

\* C27 witness: forces were computed for a pairlist with two pairs within the
\* cutoff, none at distance 0, and a pair beyond it, and an atom got a
\* force that is not zero
C27_Witness ==
    /\ forces # None
    /\ Cardinality(PairsInCutoff) >= 2
    /\ \A k \in PairsInCutoff : PairR2(k) > 0
    /\ \E k \in 1..Len(state.pairlist) : k \notin PairsInCutoff
    /\ \E a \in 1..Len(forces[1].forces) : forces[1].forces[a] # ForceVec_zero

\* the count of accepted moves says a pairlist regeneration is due
RegenDue ==
    /\ accepts_since_pairlist_regen % steps_between_pairlist_updates = 0
    /\ accepts_since_pairlist_regen # 0

\* prev_energy is the energy of the current positions with the current pairlist
PrevEnergyCurrent ==
    pc = "loop" => prev_energy = Some(State_calc_energy(state).energy)

\* what one iteration of the loop of sample may change
SampleIteration ==
    (pc = "loop" /\ pc' = "loop") =>
        /\ state'.positions # state.positions =>
              /\ accepts_since_pairlist_regen' =
                    (IF RegenDue THEN 0 ELSE accepts_since_pairlist_regen) + 1
              /\ prev_energy' = Some(State_calc_energy(state').energy)
        /\ state'.pairlist # state.pairlist => RegenDue
        /\ accepts_since_pairlist_regen' # accepts_since_pairlist_regen + 1 =>
              /\ RegenDue
              /\ accepts_since_pairlist_regen' \in {0, 1}
              /\ state'.pairlist = sample_gen_pairs(state).pairlist
        /\ accepts_since_pairlist_regen' = accepts_since_pairlist_regen =>
              /\ state' = state
              /\ prev_energy' = prev_energy
        /\ (RegenDue /\ accepts_since_pairlist_regen' = 0) =>
              /\ state'.positions = state.positions
              /\ prev_energy' = Some(State_calc_energy(sample_gen_pairs(state)).energy)

\* C26: in sample, at the start of every iteration prev_energy is the energy
\* of the current positions with the current pairlist; positions change
\* only with an accepted move, which recomputes prev_energy; a rejected move
\* leaves positions, pairlist and prev_energy; the pairlist is regenerated
\* only when the count of accepted moves is a non-zero multiple of 1000,
\* which resets the count and recomputes prev_energy with the new list.
C26_PrevEnergyCurrent == [](PrevEnergyCurrent) /\ [][SampleIteration]_vars

\* C26 witness: a thousand moves were accepted since the pairlist was
\* generated, and the list is stale: regenerating it changes the energy
C26_Witness ==
    /\ pc = "loop"
    /\ RegenDue
    /\ sample_gen_pairs(state).pairlist # state.pairlist
    /\ State_calc_energy(sample_gen_pairs(state)).energy # prev_energy[1]

\* C28 as claimed: after every step of simulate every component of every
\* position lies in [0, box length) of its axis, and no wrapping loop runs
\* for ever.
C28_PositionsWrapped ==
    /\ pc # "hang"
    /\ (pc \in {"loop", "done"} /\ step_n > 0) =>
          \A a \in 1..Len(state.positions), m \in 1..3 :
             /\ 0 <= state.positions[a][m]
             /\ state.positions[a][m] < state.boxvecs[m][m]

====
